---------------------------- MODULE Spec2Model ----------------------------
(***************************************************************************)
(* A model of pyright-mcp's check engine (src/src/pyright_mcp/runner.py):  *)
(* PyrightRunner.run_check and the functions it is built from.             *)
(*                                                                         *)
(* Python str values are sequences of one-character strings, so that       *)
(* ordering, slicing, stripping and substring tests are computed and not   *)
(* assumed.  Optional[T] is a tuple: <<>> is None and <<x>> is the value x.*)
(* A callee that raises yields [exc |-> <exception name>, val |-> ...];    *)
(* exc = "" means it returned val.                                         *)
(***************************************************************************)
EXTENDS Integers, Sequences, FiniteSets, TLC

None == <<>>
Some(x) == <<x>>

Returned(v) == [exc |-> "", val |-> v]
Raised(e) == [exc |-> e, val |-> 0]

(***************************************************************************)
(* Text                                                                    *)
(***************************************************************************)

\* The characters the model's texts are written in, in ascending code-point
\* order: str comparison in Python compares code points.
Ascii ==
    <<"\n"," ","\"","'","(",")","*",",","-",".","/",
      "0","1","2","3","4","5","6","7","8","9",":","=",
      "A","B","C","D","E","F","G","H","I","J","K","L","M",
      "N","O","P","Q","R","S","T","U","V","W","X","Y","Z",
      "[","]","_",
      "a","b","c","d","e","f","g","h","i","j","k","l","m",
      "n","o","p","q","r","s","t","u","v","w","x","y","z","{","}">>

Ord(c) == CHOOSE i \in 1..Len(Ascii) : Ascii[i] = c

Digits == <<"0","1","2","3","4","5","6","7","8","9">>
IsDigit(c) == \E i \in 1..10 : Digits[i] = c

UpperCase == <<"A","B","C","D","E","F","G","H","I","J","K","L","M",
               "N","O","P","Q","R","S","T","U","V","W","X","Y","Z">>
LowerCase == <<"a","b","c","d","e","f","g","h","i","j","k","l","m",
               "n","o","p","q","r","s","t","u","v","w","x","y","z">>

IsSpace(c) == c \in {" ", "\n"}

\* The first index from i on where a and b differ, or one of them ends.
RECURSIVE FirstDiff(_, _, _)
FirstDiff(a, b, i) ==
    IF i <= Len(a) /\ i <= Len(b) /\ a[i] = b[i] THEN FirstDiff(a, b, i + 1) ELSE i

\* a < b for two str values.
StrLess(a, b) ==
    LET d == FirstDiff(a, b, 1)
    IN  IF d > Len(a) \/ d > Len(b) THEN Len(a) < Len(b)
        ELSE Ord(a[d]) < Ord(b[d])

\* The first index from i on, and the last index down from i, that holds
\* no white space.
RECURSIVE SkipSpace(_, _)
SkipSpace(s, i) ==
    IF i <= Len(s) /\ IsSpace(s[i]) THEN SkipSpace(s, i + 1) ELSE i

RECURSIVE SkipSpaceBack(_, _)
SkipSpaceBack(s, i) ==
    IF i >= 1 /\ IsSpace(s[i]) THEN SkipSpaceBack(s, i - 1) ELSE i

\* s.strip()
strip(s) == SubSeq(s, SkipSpace(s, 1), SkipSpaceBack(s, Len(s)))

\* str(n) for an int
RECURSIVE NatToStr(_)
NatToStr(n) ==
    IF n < 10 THEN <<Digits[n + 1]>>
    ELSE NatToStr(n \div 10) \o <<Digits[(n % 10) + 1]>>

IntToStr(n) == IF n < 0 THEN <<"-">> \o NatToStr(0 - n) ELSE NatToStr(n)

\* sep.join(parts)
RECURSIVE Join(_, _)
Join(parts, sep) ==
    IF parts = <<>> THEN <<>>
    ELSE IF Len(parts) = 1 THEN parts[1]
    ELSE parts[1] \o sep \o Join(Tail(parts), sep)

(***************************************************************************)
(* JSON documents, as json.loads returns them                              *)
(***************************************************************************)

\* A decoded value is the pair of its Python type and its value.  A dict is the sequence
\* of its <<key, value>> items; a float is held in thousandths.
JNull == <<"null", 0>>
JNum(n) == <<"num", n>>
JFloat(milli) == <<"float", milli>>
JStr(s) == <<"str", s>>
JList(items) == <<"list", items>>
JDict(items) == <<"dict", items>>

\* type(x) and the Python value of a decoded document x
TypeOf(x) == x[1]
ValOf(x) == x[2]


\* The spelling of the keys of the checker's report; a key is named by
\* the string it spells.
KeyText ==
    [file |-> <<"f","i","l","e">>,
     severity |-> <<"s","e","v","e","r","i","t","y">>,
     range |-> <<"r","a","n","g","e">>,
     start |-> <<"s","t","a","r","t">>,
     end |-> <<"e","n","d">>,
     line |-> <<"l","i","n","e">>,
     character |-> <<"c","h","a","r","a","c","t","e","r">>,
     message |-> <<"m","e","s","s","a","g","e">>,
     rule |-> <<"r","u","l","e">>,
     summary |-> <<"s","u","m","m","a","r","y">>,
     generalDiagnostics |-> <<"g","e","n","e","r","a","l","D","i","a","g","n","o","s","t","i","c","s">>,
     version |-> <<"v","e","r","s","i","o","n">>,
     filesAnalyzed |-> <<"f","i","l","e","s","A","n","a","l","y","z","e","d">>,
     errorCount |-> <<"e","r","r","o","r","C","o","u","n","t">>,
     warningCount |-> <<"w","a","r","n","i","n","g","C","o","u","n","t">>,
     informationCount |-> <<"i","n","f","o","r","m","a","t","i","o","n","C","o","u","n","t">>,
     timeInSec |-> <<"t","i","m","e","I","n","S","e","c">>]

\* key in d
HasKey(d, k) == \E i \in 1..Len(ValOf(d)) : ValOf(d)[i][1] = k

\* d.get(k, default), d a dict
DictGet(d, k, default) ==
    IF HasKey(d, k)
    THEN ValOf(d)[CHOOSE i \in 1..Len(ValOf(d)) :
                /\ ValOf(d)[i][1] = k
                /\ \A j \in 1..Len(ValOf(d)) : ValOf(d)[j][1] = k => j <= i][2]
    ELSE default

\* bool(v): what `v or default` tests
Truthy(v) ==
    CASE TypeOf(v) = "null" -> FALSE
      [] TypeOf(v) = "bool" -> ValOf(v)
      [] TypeOf(v) = "num" -> ValOf(v) # 0
      [] TypeOf(v) = "float" -> ValOf(v) # 0
      [] OTHER -> ValOf(v) # <<>>

\* v or default
Or(v, default) == IF Truthy(v) THEN v ELSE default

\* The value of a string of decimal digits.
RECURSIVE DigitsVal(_)
DigitsVal(s) ==
    IF s = <<>> THEN 0
    ELSE 10 * DigitsVal(SubSeq(s, 1, Len(s) - 1)) + (CHOOSE i \in 1..10 : Digits[i] = s[Len(s)]) - 1

\* The digits of a decimal literal, after its sign
Unsigned(s) == IF s # <<>> /\ s[1] \in {"-", "+"} THEN Tail(s) ELSE s

\* The value of a signed magnitude
Signed(s, mag) == IF s # <<>> /\ s[1] = "-" THEN 0 - mag ELSE mag

\* int(s), s a stripped str: a decimal literal, ValueError otherwise
ParseInt(s) ==
    IF Unsigned(s) # <<>> /\ \A i \in 1..Len(Unsigned(s)) : IsDigit(Unsigned(s)[i])
    THEN Returned(Signed(s, DigitsVal(Unsigned(s))))
    ELSE Raised("ValueError")

\* int(v): an int is itself, a bool 0 or 1, a float truncated towards zero,
\* a str parsed as a decimal literal (ValueError otherwise); None, a list
\* and a dict are a TypeError.
py_int(v) ==
    CASE TypeOf(v) = "num" -> Returned(ValOf(v))
      [] TypeOf(v) = "bool" -> Returned(IF ValOf(v) THEN 1 ELSE 0)
      [] TypeOf(v) = "float" ->
            Returned(IF ValOf(v) >= 0 THEN ValOf(v) \div 1000 ELSE 0 - ((0 - ValOf(v)) \div 1000))
      [] TypeOf(v) = "str" -> ParseInt(strip(ValOf(v)))
      [] OTHER -> Raised("TypeError")

\* Where the decimal point of body is: past its end when it has none
DotAt(body) ==
    IF \E i \in 1..Len(body) : body[i] = "."
    THEN CHOOSE i \in 1..Len(body) : body[i] = "." /\ \A j \in 1..(i - 1) : body[j] # "."
    ELSE Len(body) + 1

\* The thousandths of a literal with digits whole before the point and frac
\* after it
Thousandths(s, whole, frac) ==
    IF /\ Len(frac) <= 3
       /\ whole \o frac # <<>>
       /\ \A i \in 1..Len(whole) : IsDigit(whole[i])
       /\ \A i \in 1..Len(frac) : IsDigit(frac[i])
    THEN Returned(Signed(s, 1000 * DigitsVal(whole)
                                + DigitsVal(SubSeq(frac \o <<"0","0","0">>, 1, 3))))
    ELSE Raised("ValueError")

\* float(s), s a stripped str
ParseFloat(s, dot) ==
    Thousandths(s, SubSeq(Unsigned(s), 1, dot - 1),
                SubSeq(Unsigned(s), dot + 1, Len(Unsigned(s))))

\* float(v), in thousandths: a str is a decimal literal with at most three
\* digits after the point.
py_float(v) ==
    CASE TypeOf(v) = "float" -> Returned(ValOf(v))
      [] TypeOf(v) = "num" -> Returned(1000 * ValOf(v))
      [] TypeOf(v) = "bool" -> Returned(IF ValOf(v) THEN 1000 ELSE 0)
      [] TypeOf(v) = "str" -> ParseFloat(strip(ValOf(v)), DotAt(Unsigned(strip(ValOf(v)))))
      [] OTHER -> Raised("TypeError")

\* repr(x) of a float held in thousandths: "0.25", "1.0"
FloatToStr(milli) ==
    LET a == IF milli < 0 THEN 0 - milli ELSE milli
        frac == a % 1000
        f3 == <<Digits[(frac \div 100) + 1], Digits[((frac \div 10) % 10) + 1],
                Digits[(frac % 10) + 1]>>
        fr == IF frac % 100 = 0 THEN SubSeq(f3, 1, 1)
              ELSE IF frac % 10 = 0 THEN SubSeq(f3, 1, 2) ELSE f3
    IN  (IF milli < 0 THEN <<"-">> ELSE <<>>) \o NatToStr(a \div 1000) \o <<".">> \o fr

\* str(v) for a scalar; the model's documents hold lists and dicts only
\* where the code does not call str on them, except the empty ones.
py_str(v) ==
    CASE TypeOf(v) = "str" -> ValOf(v)
      [] TypeOf(v) = "num" -> IntToStr(ValOf(v))
      [] TypeOf(v) = "float" -> FloatToStr(ValOf(v))
      [] TypeOf(v) = "bool" -> IF ValOf(v) THEN <<"T","r","u","e">> ELSE <<"F","a","l","s","e">>
      [] TypeOf(v) = "null" -> <<"N","o","n","e">>
      [] TypeOf(v) = "list" -> <<"[","]">>
      [] OTHER -> <<"{","}">>

\* json.dumps(v): the text the checker prints for document v.
RECURSIVE json_dumps(_)
json_dumps(v) ==
    CASE TypeOf(v) = "null" -> <<"n","u","l","l">>
      [] TypeOf(v) = "bool" -> IF ValOf(v) THEN <<"t","r","u","e">> ELSE <<"f","a","l","s","e">>
      [] TypeOf(v) = "num" -> IntToStr(ValOf(v))
      [] TypeOf(v) = "float" -> FloatToStr(ValOf(v))
      [] TypeOf(v) = "str" -> <<"\"">> \o ValOf(v) \o <<"\"">>
      [] TypeOf(v) = "list" ->
            <<"[">> \o Join([i \in 1..Len(ValOf(v)) |-> json_dumps(ValOf(v)[i])], <<","," ">>)
                    \o <<"]">>
      [] OTHER ->
            <<"{">> \o Join([i \in 1..Len(ValOf(v)) |->
                                <<"\"">> \o KeyText[ValOf(v)[i][1]] \o <<"\"",":"," ">>
                                    \o json_dumps(ValOf(v)[i][2])], <<","," ">>)
                    \o <<"}">>

(***************************************************************************)
(* Paths and the file system                                               *)
(***************************************************************************)

\* The directory the server process runs in: Path.resolve() makes a
\* relative path absolute against it.
ProcCwd == <<"/","p">>

Slash == <<"/">>

\* The directories of the modelled file system; they stay.
DirW == <<"/","w">>
Dirs == {Slash, ProcCwd, <<"/","p","/","s">>, <<"/","p","/","s",".","d">>, DirW}

\* The files that can exist; which of them do is the state variable fs.
FileA == <<"/","p","/","a",".","p","y">>
FileB == <<"/","p","/","b",".","p","y">>
FileC == <<"/","p","/","s","/","c",".","p","y">>
Files == {FileA, FileB, FileC, <<"/","p","/","s",".","d","/","e",".","p","y">>}

is_file(fsys, p) == p \in fsys
is_dir(fsys, p) == p \in Dirs
exists(fsys, p) == is_file(fsys, p) \/ is_dir(fsys, p)

\* s.split("/"), dropping empty pieces: the components of a path.
RECURSIVE Components(_)
Components(p) ==
    IF p = <<>> THEN <<>>
    ELSE LET cut == {i \in 1..Len(p) : p[i] = "/"}
         IN  IF cut = {} THEN <<p>>
             ELSE LET c == CHOOSE i \in cut : \A j \in cut : i <= j
                      rest == Components(SubSeq(p, c + 1, Len(p)))
                  IN  IF c = 1 THEN rest ELSE <<SubSeq(p, 1, c - 1)>> \o rest

IsAbsolute(p) == p # <<>> /\ p[1] = "/"

\* PurePath.parts: the root, then the components.
Parts(p) == (IF IsAbsolute(p) THEN <<Slash>> ELSE <<>>) \o Components(p)

\* str(Path(*parts))
FromParts(parts) ==
    IF parts = <<>> THEN <<".">>
    ELSE IF parts[1] = Slash THEN Slash \o Join(Tail(parts), Slash)
    ELSE Join(parts, Slash)

\* Path(p).parent
Parent(p) ==
    LET parts == Parts(p)
    IN  IF parts = <<>> \/ parts = <<Slash>> THEN FromParts(parts)
        ELSE FromParts(SubSeq(parts, 1, Len(parts) - 1))

\* Path(p).name
Name(p) ==
    LET c == Components(p)
    IN  IF c = <<>> \/ p = <<".">> THEN <<>> ELSE c[Len(c)]

\* str(Path(p).resolve()): the modelled file system has no symbolic links
\* and the modelled paths no ".." component.
resolve(p) ==
    IF IsAbsolute(p) THEN FromParts(Parts(p))
    ELSE IF Parts(p) = <<>> \/ p = <<".">> THEN ProcCwd
    ELSE FromParts(Parts(ProcCwd) \o Components(p))

\* p.relative_to(root), as the parts of the result; ValueError when p is
\* not under root.
relative_to(p, root) ==
    LET pp == Parts(p)
        rp == Parts(root)
    IN  IF Len(rp) <= Len(pp) /\ SubSeq(pp, 1, Len(rp)) = rp
        THEN Returned(SubSeq(pp, Len(rp) + 1, Len(pp)))
        ELSE Raised("ValueError")

\* fnmatch.fnmatchcase(s, pat) for patterns of literals, * and ?
RECURSIVE fnmatch(_, _)
fnmatch(s, pat) ==
    IF pat = <<>> THEN s = <<>>
    ELSE IF pat[1] = "*"
         THEN \E k \in 0..Len(s) : fnmatch(SubSeq(s, k + 1, Len(s)), Tail(pat))
    ELSE /\ s # <<>>
         /\ pat[1] = "?" \/ pat[1] = s[1]
         /\ fnmatch(Tail(s), Tail(pat))

\* Whether the path with components rel, below the globbed directory,
\* is selected by the pattern components pat; isdir tells whether the path
\* is a directory ("**" selects directories only).
RECURSIVE GlobMatch(_, _, _)
GlobMatch(pat, rel, isdir) ==
    IF pat = <<>> THEN rel = <<>>
    ELSE IF pat[1] = <<"*","*">>
         THEN \/ /\ Len(pat) = 1
                 /\ isdir
              \/ /\ Len(pat) > 1
                 /\ GlobMatch(Tail(pat), rel, isdir)
              \/ /\ Len(pat) > 1
                 /\ rel # <<>>
                 /\ GlobMatch(pat, Tail(rel), isdir)
    ELSE /\ rel # <<>>
         /\ fnmatch(rel[1], pat[1])
         /\ GlobMatch(Tail(pat), Tail(rel), isdir)

\* Whether p is root or below it.
IsUnder(p, root) == relative_to(p, root).exc = ""

\* set(root.glob(pat)); pathlib refuses an empty and an absolute pattern.
glob(fsys, root, pat) ==
    IF Components(pat) = <<>> THEN Raised("ValueError")
    ELSE IF IsAbsolute(pat) THEN Raised("NotImplementedError")
    ELSE Returned({p \in fsys \cup Dirs :
                      /\ IsUnder(p, root)
                      /\ GlobMatch(Components(pat), relative_to(p, root).val,
                                   is_dir(fsys, p))})

\* {f for f in p.rglob("*") if f.is_file()}
rglob_files(fsys, p) == {f \in fsys : IsUnder(f, p) /\ f # p}

(***************************************************************************)
(* Target expansion                                                        *)
(***************************************************************************)

\* `if xs:` for an Optional[List]: neither None nor empty.
Given(xs) == xs # None /\ xs[1] # <<>>

\* a < b for two lists of str, compared element by element.
SeqLess(a, b) ==
    LET diff == {k \in 1..Len(a) : k <= Len(b) /\ a[k] # b[k]}
    IN  IF diff = {}
        THEN Len(a) < Len(b)
        ELSE LET d == CHOOSE k \in diff : \A j \in diff : k <= j
             IN  StrLess(a[d], b[d])

\* Path(a) < Path(b): pathlib orders paths by their parts
PathLess(a, b) == SeqLess(Parts(a), Parts(b))

\* sorted(set(paths)) for Path objects
RECURSIVE SortedPaths(_)
SortedPaths(S) ==
    IF S = {} THEN <<>>
    ELSE LET m == CHOOSE x \in S : \A y \in S \ {x} : PathLess(x, y)
         IN  <<m>> \o SortedPaths(S \ {m})

\* The files one include pattern contributes to `found`.
IncludedBy(fsys, root, pat) ==
    LET g == glob(fsys, root, pat)
    IN  IF g.exc # "" THEN g
        ELSE Returned(UNION {IF is_file(fsys, p) THEN {resolve(p)}
                             ELSE IF is_dir(fsys, p)
                                  THEN {resolve(f) : f \in rglob_files(fsys, p)}
                                  ELSE {} : p \in g.val})

\* Whether an exclude pattern drops path p.
Excluded(p, relroot, exclude) ==
    LET rel == relative_to(resolve(p), relroot)
        rel_posix == IF rel.exc = "" THEN FromParts(rel.val) ELSE Name(p)
    IN  \E i \in 1..Len(exclude) :
            fnmatch(rel_posix, exclude[i]) \/ fnmatch(Name(p), exclude[i])

\* _iter_included_paths(root, include, exclude), as the set of the paths of
\* the list it returns: the list is built from a set, in no defined order,
\* and its callers sort it.
_iter_included_paths(fsys, root, include, exclude) ==
    LET parts == IF Given(include)
                 THEN [i \in 1..Len(include[1]) |-> IncludedBy(fsys, root, include[1][i])]
                 ELSE <<Returned({resolve(root)})>>
        bad == {i \in 1..Len(parts) : parts[i].exc # ""}
        paths == UNION {parts[i].val : i \in 1..Len(parts)}
    IN  IF bad # {}
        THEN Raised(parts[CHOOSE i \in bad : \A j \in bad : i <= j].exc)
        ELSE IF Given(exclude)
             THEN Returned({p \in paths : ~Excluded(p, resolve(root), exclude[1])})
             ELSE Returned(paths)

(***************************************************************************)
(* Executable resolution and version probing                               *)
(***************************************************************************)

WhichPyright == <<"/","u","s","r","/","b","i","n","/","p","y","r","i","g","h","t">>
SysExecutable == <<"/","u","s","r","/","b","i","n","/","p","y","t","h","o","n","3">>
\* [sys.executable, "-m", "pyright"]
ModuleArgv == <<SysExecutable, <<"-","m">>, <<"p","y","r","i","g","h","t">> >>

\* What one subprocess.run of a probe did: exc names the exception it
\* raised ("" when it completed), else returncode and stdout are its result.
Completed(rc, out) == [exc |-> "", returncode |-> rc, stdout |-> out]
Failed(e) == [exc |-> e, returncode |-> 0, stdout |-> <<>>]

IsWordChar(c) == c = "_" \/ IsDigit(c)
                    \/ (\E k \in 1..26 : UpperCase[k] = c \/ LowerCase[k] = c)

\* The end of the run of digits that starts at i, or i - 1 when s[i] is no digit.
RECURSIVE DigitRunEnd(_, _)
DigitRunEnd(s, i) ==
    IF i <= Len(s) /\ IsDigit(s[i]) THEN DigitRunEnd(s, i + 1) ELSE i - 1

\* Where a match of \b(\d+\.\d+\.\d+)\b that starts at i ends; 0 when none does.
SemverEnd(s, i) ==
    LET e1 == DigitRunEnd(s, i)
        e2 == DigitRunEnd(s, e1 + 2)
        e3 == DigitRunEnd(s, e2 + 2)
    IN  IF /\ i = 1 \/ ~IsWordChar(s[i - 1])
           /\ e1 >= i
           /\ e1 + 1 <= Len(s) /\ s[e1 + 1] = "."
           /\ e2 >= e1 + 2
           /\ e2 + 1 <= Len(s) /\ s[e2 + 1] = "."
           /\ e3 >= e2 + 2
           /\ e3 = Len(s) \/ ~IsWordChar(s[e3 + 1])
        THEN e3 ELSE 0

_parse_version_string(s) ==
    LET starts == {i \in 1..Len(s) : SemverEnd(s, i) > 0}
    IN  IF starts = {} THEN strip(s)
        ELSE LET i == CHOOSE k \in starts : \A j \in starts : k <= j
             IN  SubSeq(s, i, SemverEnd(s, i))

\* re.match(r"^\d+\.\d+\.\d+$", version): $ also matches before a final newline
_supports_outputjson(version) ==
    LET v == IF version # <<>> /\ version[Len(version)] = "\n"
             THEN SubSeq(version, 1, Len(version) - 1) ELSE version
        e1 == DigitRunEnd(v, 1)
        e2 == DigitRunEnd(v, e1 + 2)
        e3 == DigitRunEnd(v, e2 + 2)
    IN  /\ e1 >= 1
        /\ e1 + 1 <= Len(v) /\ v[e1 + 1] = "."
        /\ e2 >= e1 + 2
        /\ e2 + 1 <= Len(v) /\ v[e2 + 1] = "."
        /\ e3 >= e2 + 2
        /\ e3 = Len(v)

\* _build_pyright_argv(): <<argv_prefix, display_exe>>.  which is what
\* shutil.which("pyright") returns, modrun what running
\* `python -m pyright --version` does.
_build_pyright_argv(which, modrun) ==
    IF which # None /\ which[1] # <<>>
    THEN <<(<<which[1]>>), which[1]>>
    ELSE IF modrun.exc = "" /\ modrun.returncode = 0 /\ modrun.stdout # <<>>
         THEN <<ModuleArgv, Join(ModuleArgv, <<" ">>)>>
         ELSE <<(<<>>), (<<>>)>>

\* get_pyright_version(): verrun is what running `<prefix> --version` does.
get_pyright_version(which, modrun, verrun) ==
    LET r == _build_pyright_argv(which, modrun)
        argv == r[1]
        display == r[2]
        exe == IF display # <<>> THEN display ELSE argv[1]
    IN  IF argv = <<>>
        THEN [version |-> <<>>, executable_path |-> <<>>, supports_outputjson |-> FALSE]
        ELSE IF verrun.exc # ""
             THEN [version |-> <<>>, executable_path |-> exe,
                   supports_outputjson |-> FALSE]
             ELSE LET ver == _parse_version_string(verrun.stdout)
                  IN  [version |-> ver, executable_path |-> exe,
                       supports_outputjson |-> _supports_outputjson(ver)]

(***************************************************************************)
(* Output parsing and normalisation                                        *)
(***************************************************************************)

SevInformation == <<"i","n","f","o","r","m","a","t","i","o","n">>
SevWarning == <<"w","a","r","n","i","n","g">>
SevError == <<"e","r","r","o","r">>
FailOnNone == <<"n","o","n","e">>

Severities == {SevInformation, SevWarning, SevError}
FailOns == {FailOnNone} \cup Severities

SEVERITY_LEVEL(sev) ==
    CASE sev = SevInformation -> 1
      [] sev = SevWarning -> 2
      [] sev = SevError -> 3

\* {"line": int(pos.get("line", 0)), "character": int(pos.get("character", 0))}
\* from the two conversions, the line's first
PositionOf(l, c) ==
    IF l.exc # "" THEN l
    ELSE IF c.exc # "" THEN c
    ELSE Returned([line |-> l.val, character |-> c.val])

\* One end of a range: pos.get raises on a value that is no mapping.
Position(pos) ==
    IF TypeOf(pos) # "dict" THEN Raised("AttributeError")
    ELSE PositionOf(py_int(DictGet(pos, "line", JNum(0))),
                    py_int(DictGet(pos, "character", JNum(0))))

\* SeverityOf that takes an unknown severity for an error
SeverityOf_UnknownIsError(sev_raw) ==
    IF TypeOf(sev_raw) = "str" /\ ValOf(sev_raw) \in Severities
    THEN ValOf(sev_raw) ELSE SevError

\* sev of _normalize_diag: an unknown severity counts as information
SeverityOf(sev_raw) ==
    IF TypeOf(sev_raw) = "str" /\ ValOf(sev_raw) \in Severities
    THEN ValOf(sev_raw) ELSE SevInformation

\* rule of _normalize_diag
RuleOf(rule_val) == IF TypeOf(rule_val) = "str" THEN Some(ValOf(rule_val)) ELSE None

\* The dict _normalize_diag returns, once both ends of the range converted
DiagOf(d, start, end) ==
    IF start.exc # "" THEN start
    ELSE IF end.exc # "" THEN end
    ELSE Returned([file |-> resolve(py_str(DictGet(d, "file", JStr(<<>>)))),
                   range |-> [start |-> start.val, end |-> end.val],
                   severity |-> SeverityOf(DictGet(d, "severity", JStr(SevInformation))),
                   severity_level |->
                       SEVERITY_LEVEL(SeverityOf(DictGet(d, "severity",
                                                         JStr(SevInformation)))),
                   message |-> py_str(DictGet(d, "message", JStr(<<>>))),
                   rule |-> RuleOf(DictGet(d, "rule", JNull)),
                   code |-> RuleOf(DictGet(d, "rule", JNull))])

\* start and end of _normalize_diag, from rng
RangeOf(d, rng) ==
    IF TypeOf(rng) # "dict" THEN Raised("AttributeError")
    ELSE DiagOf(d, Position(Or(DictGet(rng, "start", JNull), JDict(<<>>))),
                Position(Or(DictGet(rng, "end", JNull), JDict(<<>>))))

\* _normalize_diag(d): the normalised diagnostic, or the exception the
\* attribute lookups and int() conversions raise on an ill-typed entry.
_normalize_diag(d) ==
    IF TypeOf(d) # "dict" THEN Raised("AttributeError")
    ELSE RangeOf(d, Or(DictGet(d, "range", JNull), JDict(<<>>)))

\* The sort key of run_check: (file, start line, start character)
SortKey(d) == <<d.file, d.range.start.line, d.range.start.character>>

\* ka < kb for two sort keys (tuple comparison)
KeyLess(ka, kb) ==
    IF ka[1] # kb[1] THEN StrLess(ka[1], kb[1])
    ELSE IF ka[2] # kb[2] THEN ka[2] < kb[2]
    ELSE ka[3] < kb[3]

\* InsertByKey that puts an entry before the entries whose key equals its
\* own: a sort that is not stable
InsertByKey_BeforeEqual(sorted, d) ==
    LET after == {i \in 1..Len(sorted) : ~KeyLess(SortKey(sorted[i]), SortKey(d))}
        at == IF after = {} THEN Len(sorted) + 1
              ELSE CHOOSE i \in after : \A j \in after : i <= j
    IN  SubSeq(sorted, 1, at - 1) \o <<d>> \o SubSeq(sorted, at, Len(sorted))

\* list.sort(key=SortKey) is stable: an entry goes after the entries whose
\* key is not greater than its own.
InsertByKey(sorted, d) ==
    LET after == {i \in 1..Len(sorted) : KeyLess(SortKey(d), SortKey(sorted[i]))}
        at == IF after = {} THEN Len(sorted) + 1
              ELSE CHOOSE i \in after : \A j \in after : i <= j
    IN  SubSeq(sorted, 1, at - 1) \o <<d>> \o SubSeq(sorted, at, Len(sorted))

RECURSIVE SortDiags(_)
SortDiags(ds) ==
    IF ds = <<>> THEN <<>>
    ELSE InsertByKey(SortDiags(SubSeq(ds, 1, Len(ds) - 1)), ds[Len(ds)])

\* The list comprehension stops at the first entry that raises; the list
\* it completes is sorted.
Collected(each) ==
    IF \E i \in 1..Len(each) : each[i].exc # ""
    THEN Raised(each[CHOOSE i \in 1..Len(each) :
                        /\ each[i].exc # ""
                        /\ \A j \in 1..(i - 1) : each[j].exc = ""].exc)
    ELSE Returned(SortDiags([i \in 1..Len(each) |-> each[i].val]))

\* [_normalize_diag(d) for d in diags_raw], then the sort: iterating a
\* dict yields its keys and iterating a str its characters, on which
\* _normalize_diag raises; a number is not iterable.
NormalizeAll(raw) ==
    IF TypeOf(raw) \in {"num", "float", "bool", "null"} THEN Raised("TypeError")
    ELSE IF TypeOf(raw) \in {"dict", "str"} THEN Raised("AttributeError")
    ELSE Collected([i \in 1..Len(ValOf(raw)) |-> _normalize_diag(ValOf(raw)[i])])

ZeroSummary ==
    [files_analyzed |-> 0, error_count |-> 0, warning_count |-> 0,
     information_count |-> 0, time_sec |-> 0]

\* SummaryOut(...) from its five conversions, made in this order
SummaryOut(fa, er, wa, inf, ti) ==
    IF fa.exc # "" THEN fa
    ELSE IF er.exc # "" THEN er
    ELSE IF wa.exc # "" THEN wa
    ELSE IF inf.exc # "" THEN inf
    ELSE IF ti.exc # "" THEN ti
    ELSE Returned([files_analyzed |-> fa.val, error_count |-> er.val,
                   warning_count |-> wa.val, information_count |-> inf.val,
                   time_sec |-> ti.val])

\* summary of run_check; time_sec is held in thousandths.
NormalizeSummary(summary_raw) ==
    IF TypeOf(summary_raw) # "dict" THEN Raised("AttributeError")
    ELSE SummaryOut(py_int(DictGet(summary_raw, "filesAnalyzed", JNum(0))),
                    py_int(DictGet(summary_raw, "errorCount", JNum(0))),
                    py_int(DictGet(summary_raw, "warningCount", JNum(0))),
                    py_int(DictGet(summary_raw, "informationCount", JNum(0))),
                    py_float(DictGet(summary_raw, "timeInSec", JFloat(0))))

(***************************************************************************)
(* Threshold evaluation                                                    *)
(***************************************************************************)

\* The texts of the messages of _compute_threshold_ok and run_check
Msg ==
    [breach_head |->
       <<"f","a","i","l","_","o","n","_","s","e","v","e","r","i","t","y"," ","'">>,
     breach_mid |->
       <<"'"," ","b","r","e","a","c","h","e","d"," ","(","m","a","x","_","s","e","v",
       "e","r","i","t","y","_","l","e","v","e","l","=">>,
     breach_tail |->
       <<")",".">>,
     target_not_found |->
       <<"T","a","r","g","e","t"," ","p","a","t","h"," ","n","o","t"," ","f","o","u",
       "n","d",":"," ">>,
     not_available |->
       <<"P","y","r","i","g","h","t"," ","n","o","t"," ","a","v","a","i","l","a","b",
       "l","e"," ","(","n","e","i","t","h","e","r"," ","'","p","y","r","i",
       "g","h","t","'"," ","e","x","e","c","u","t","a","b","l","e"," ","n",
       "o","r"," ","'","p","y","t","h","o","n"," ","-","m"," ","p","y","r",
       "i","g","h","t","'",")","."," ","I","n","s","t","a","l","l"," ","v",
       "i","a"," ","p","i","p","x",":"," ","'","p","i","p","x"," ","i","n",
       "s","t","a","l","l"," ","p","y","r","i","g","h","t","-","m","c","p",
       "'"," ","(","b","u","n","d","l","e","s"," ","p","y","r","i","g","h",
       "t",")",","," ","o","r"," ","a","d","d"," ","p","y","r","i","g","h",
       "t"," ","t","o"," ","y","o","u","r"," ","e","n","v","i","r","o","n",
       "m","e","n","t",".">>,
     timeout_head |->
       <<"T","i","m","e","o","u","t"," ","a","f","t","e","r"," ">>,
     timeout_tail |->
       <<"s"," ","w","h","i","l","e"," ","r","u","n","n","i","n","g"," ","P","y","r",
       "i","g","h","t","."," ","T","r","y"," ","i","n","c","r","e","a","s",
       "i","n","g"," ","t","i","m","e","o","u","t","_","s","e","c",","," ",
       "r","e","d","u","c","i","n","g"," ","i","n","c","l","u","d","e"," ",
       "s","c","o","p","e",","," ","o","r"," ","e","n","a","b","l","i","n",
       "g"," ","P","y","r","i","g","h","t"," ","c","a","c","h","i","n","g",
       ".">>,
     spawn_failed |->
       <<"F","a","i","l","e","d"," ","t","o"," ","e","x","e","c","u","t","e"," ","P",
       "y","r","i","g","h","t","."," ","E","n","s","u","r","e"," ","'","p",
       "y","r","i","g","h","t","'"," ","i","s"," ","i","n","s","t","a","l",
       "l","e","d"," ","a","n","d"," ","o","n"," ","P","A","T","H",".">>,
     parse_failed |->
       <<"F","a","i","l","e","d"," ","t","o"," ","p","a","r","s","e"," ","P","y","r",
       "i","g","h","t"," ","J","S","O","N"," ","o","u","t","p","u","t",".",
       " ","C","o","n","s","i","d","e","r"," ","u","p","g","r","a","d","i",
       "n","g"," ","P","y","r","i","g","h","t"," ","o","r"," ","c","h","e",
       "c","k","i","n","g"," ","C","L","I"," ","a","r","g","u","m","e","n",
       "t","s","."," ","O","u","t","p","u","t"," ","t","a","i","l",":","\n">>]

\* f"fail_on_severity '{threshold}' breached (max_severity_level={max_sev})."
BreachMessage(threshold, max_sev) ==
    Msg.breach_head \o threshold \o Msg.breach_mid \o IntToStr(max_sev) \o Msg.breach_tail

\* The loop of _compute_threshold_ok from entry i on: max_sev when it ends.
RECURSIVE ScanMaxSev(_, _, _, _)
ScanMaxSev(diags, i, max_sev, th_val) ==
    IF i > Len(diags) THEN max_sev
    ELSE LET m == IF diags[i].severity_level > max_sev
                  THEN diags[i].severity_level ELSE max_sev
         IN  IF m >= th_val THEN m
             ELSE ScanMaxSev(diags, i + 1, m, th_val)

\* _compute_threshold_ok with the final test `max_sev > th_val`
_compute_threshold_ok_strict(diags, threshold) ==
    IF threshold = FailOnNone THEN <<TRUE, None>>
    ELSE LET th_val == SEVERITY_LEVEL(threshold)
             max_sev == ScanMaxSev(diags, 1, 0, th_val)
         IN  IF max_sev > th_val /\ max_sev > 0
             THEN <<FALSE, Some(BreachMessage(threshold, max_sev))>>
             ELSE <<TRUE, None>>

\* _compute_threshold_ok(diags, threshold): <<ok, reason>>
_compute_threshold_ok(diags, threshold) ==
    IF threshold = FailOnNone THEN <<TRUE, None>>
    ELSE LET th_val == SEVERITY_LEVEL(threshold)
             max_sev == ScanMaxSev(diags, 1, 0, th_val)
         IN  IF max_sev >= th_val /\ max_sev > 0
             THEN <<FALSE, Some(BreachMessage(threshold, max_sev))>>
             ELSE <<TRUE, None>>

(***************************************************************************)
(* The checker's output                                                    *)
(***************************************************************************)

\* One entry of generalDiagnostics as pyright prints it.
RawDiag(file, sev, line, ch, msg) ==
    JDict(<< <<"file", JStr(file)>>, <<"severity", sev>>, <<"message", JStr(msg)>>,
             <<"range", JDict(<< <<"start", JDict(<< <<"line", line>>,
                                                   <<"character", JNum(ch)>> >>)>>,
                                <<"end", JDict(<< <<"line", line>>,
                                                 <<"character", JNum(ch + 1)>> >>)>> >>)>>,
             <<"rule", JStr(<<"r">> \o msg)>> >>)

RawSummary(files, errors, warnings, infos, milli) ==
    JDict(<< <<"filesAnalyzed", JNum(files)>>, <<"errorCount", JNum(errors)>>,
             <<"warningCount", JNum(warnings)>>, <<"informationCount", JNum(infos)>>,
             <<"timeInSec", JFloat(milli)>> >>)

Report(diags, summary) ==
    JDict(<< <<"version", JStr(<<"1",".","1",".","4","0","5">>)>>, <<"generalDiagnostics", diags>>,
             <<"summary", summary>> >>)

RelA == <<"a",".","p","y">>

\* The entries the modelled checker reports: out of order, two that tie on
\* the sort key, a relative file name, a two-digit line, an unknown and a
\* missing severity, a missing range.
RawB == RawDiag(FileB, JStr(SevError), JNum(1), 0, <<"m","1">>)
RawA2 == RawDiag(FileA, JStr(SevWarning), JNum(2), 5, <<"m","2">>)
RawA2tie == RawDiag(FileA, JStr(SevInformation), JNum(2), 5, <<"m","3">>)
RawDiags ==
    {RawB, RawA2, RawA2tie,
     RawDiag(RelA, JStr(<<"h","i","n","t">>), JNum(10), 5, <<"m","4">>),
     JDict(<< <<"file", JStr(FileC)>>, <<"message", JStr(<<"m","5">>)>> >>)}

\* The longest generalDiagnostics list of the enumerated reports.
MaxDiags == 3

RECURSIVE SeqsUpTo(_, _)
SeqsUpTo(S, n) ==
    IF n = 0 THEN {<<>>}
    ELSE LET shorter == SeqsUpTo(S, n - 1)
         IN  shorter \cup {Append(s, x) : s \in {t \in shorter : Len(t) = n - 1}, x \in S}

\* Every report with at most MaxDiags of the entries above, under two
\* summaries; the summary counts are the checker's own and need not match
\* the entries.
DiagReports ==
    {Report(JList(ds), summary) :
        ds \in SeqsUpTo(RawDiags, MaxDiags),
        summary \in {RawSummary(3, 1, 0, 2, 1500), RawSummary(7, 0, 4, 0, 250)}}

\* A report of two findings, the first out of order.
DocFindings == Report(JList(<<RawB, RawA2tie>>), RawSummary(2, 1, 0, 1, 500))

\* Reports that parse and normalise: none, two and one finding, and a
\* finding with an empty rule and no range.
ParsedDocs ==
    {Report(JList(<<>>), RawSummary(1, 0, 0, 0, 250)),
     DocFindings,
     Report(JList(<<RawA2>>), RawSummary(1, 0, 1, 0, 500)),
     Report(JList(<<JDict(<< <<"file", JStr(FileC)>>, <<"severity", JStr(SevError)>>,
                            <<"message", JStr(<<"m","6">>)>>, <<"rule", JStr(<<>>)>> >>)>>),
            RawSummary(1, 1, 0, 0, 250))}

\* Reports with an ill-typed value: a summary that is a list, a line that
\* is no number, and a generalDiagnostics that is a mapping.
IllTypedDocs ==
    {Report(JList(<<RawB>>), JList(<<JNum(1)>>)),
     Report(JList(<<RawDiag(FileA, JStr(SevError), JStr(<<"x">>), 0, <<"m">>)>>),
            RawSummary(1, 1, 0, 0, 250)),
     Report(JDict(<< <<"file", JStr(FileA)>> >>), RawSummary(1, 1, 0, 0, 250))}

\* JSON that is no report: a mapping without generalDiagnostics, one
\* without summary, and a list.
ShapelessDocs ==
    {JDict(<< <<"version", JStr(<<"1",".","1",".","4","0","5">>)>>,
              <<"summary", RawSummary(1, 0, 0, 0, 250)>> >>),
     JDict(<< <<"generalDiagnostics", JList(<<RawB>>)>> >>),
     JList(<<RawB>>)}

\* Every document the modelled checker can print, with its text.
KnownDocs == DiagReports \cup ParsedDocs \cup IllTypedDocs \cup ShapelessDocs
TextDocs == {<<json_dumps(d), d>> : d \in KnownDocs}

\* The document a JSON text decodes to
DocOf == [t \in {td[1] : td \in TextDocs} |-> (CHOOSE td \in TextDocs : td[1] = t)[2]]

\* Output that is no JSON text: a message, nothing, and a long trace.
LongLen == 1001
GarbageTexts ==
    {<<"n","o","t","-","j","s","o","n">>,
     <<>>,
     <<" ","A">> \o [i \in 1..LongLen |-> "x"] \o <<"\n">>}

(***************************************************************************)
(* run_check                                                               *)
(***************************************************************************)

\* $VIRTUAL_ENV of the server process
EnvVirtualEnv == Some(<<"/","v","e","n","v">>)

\* _detect_venv_path(): $VIRTUAL_ENV when set, else sys.prefix (/usr)
_detect_venv_path ==
    IF EnvVirtualEnv # None /\ EnvVirtualEnv[1] # <<>>
    THEN resolve(EnvVirtualEnv[1])
    ELSE resolve(<<"/","u","s","r">>)

CheckResult(ok, fail_reason, command, exit_code, summary, diagnostics, pyright_version, analyzed_root, checked_paths, venv_path) ==
    [ok |-> ok, fail_reason |-> fail_reason, command |-> command,
     exit_code |-> exit_code, summary |-> summary, diagnostics |-> diagnostics,
     pyright_version |-> pyright_version, analyzed_root |-> analyzed_root,
     checked_paths |-> checked_paths, venv_path |-> venv_path]

\* tail[-1000:] if len(tail) > 1000 else tail
TailExcerpt(tail) ==
    IF Len(tail) > 1000 THEN SubSeq(tail, Len(tail) - 1000 + 1, Len(tail)) ELSE tail

\* json.loads(text) answers from the documents the modelled checker can
\* print: a text is a JSON text exactly when it is the serialisation of one
\* of them.
json_loads(text) ==
    IF text \in DOMAIN DocOf THEN Returned(DocOf[text])
    ELSE Raised("JSONDecodeError")

\* Mapping without the test for the 'summary' key
Mapping_NoSummaryTest(obj) ==
    IF obj.exc # "" THEN None
    ELSE IF TypeOf(obj.val) # "dict" THEN None
    ELSE IF ~HasKey(obj.val, "generalDiagnostics") THEN None
    ELSE Some(obj.val)

\* The checks parse_pyright_json makes on what json.loads did
Mapping(obj) ==
    IF obj.exc # "" THEN None
    ELSE IF TypeOf(obj.val) # "dict" THEN None
    ELSE IF ~HasKey(obj.val, "summary") \/ ~HasKey(obj.val, "generalDiagnostics")
         THEN None
    ELSE Some(obj.val)

\* parse_pyright_json(text): None, or the decoded mapping
parse_pyright_json(text) == Mapping(json_loads(text))

\* What subprocess.run(cmd, ...) of the check did: exc names the exception
\* it raised ("" when the process completed); stdout and stderr are what the
\* process had written.
RunOutcome(e, rc, out, err) ==
    [exc |-> e, returncode |-> rc, stdout |-> out, stderr |-> err]

\* ParseFailure that gives no reason
ParseFailure_NoReason(run, command, version, root, checked) ==
    CheckResult(FALSE, None, command, run.returncode, ZeroSummary, <<>>, version, root,
                checked, _detect_venv_path)

\* Lines 429-454: the result when the output did not parse
ParseFailure(run, command, version, root, checked) ==
    CheckResult(FALSE,
                Some(Msg.parse_failed
                        \o TailExcerpt(strip(run.stdout \o <<"\n">> \o run.stderr))),
                command, run.returncode, ZeroSummary, <<>>, version, root, checked,
                _detect_venv_path)

\* Assembled with the exit code derived from the verdict
Assembled_ExitFromVerdict(p, run, command, version, root, checked, ver, diags, summary, verdict) ==
    CheckResult(verdict[1], verdict[2], command, IF verdict[1] THEN 0 ELSE 1, summary,
                diags, IF Truthy(ver) THEN py_str(ver) ELSE version,
                root, checked, _detect_venv_path)

\* Lines 471-485: the threshold verdict and the result
Assembled(p, run, command, version, root, checked, ver, diags, summary, verdict) ==
    CheckResult(verdict[1], verdict[2], command, run.returncode, summary, diags,
                IF Truthy(ver) THEN py_str(ver) ELSE version,
                root, checked, _detect_venv_path)

\* Normalized with error_count recounted from the diagnostics
Normalized_RecountsErrors(p, run, command, version, root, checked, ver, diags, summary) ==
    IF diags.exc # "" THEN diags
    ELSE IF summary.exc # "" THEN summary
    ELSE Returned(Assembled(p, run, command, version, root, checked, ver, diags.val,
                            [summary.val EXCEPT !.error_count =
                                Cardinality({i \in 1..Len(diags.val) :
                                                diags.val[i].severity = SevError})],
                            _compute_threshold_ok(diags.val, p.fail_on_severity)))

\* Lines 456-485: diagnostics, then summary, then the result; an exception
\* of either conversion leaves run_check.
Normalized(p, run, command, version, root, checked, ver, diags, summary) ==
    IF diags.exc # "" THEN diags
    ELSE IF summary.exc # "" THEN summary
    ELSE Returned(Assembled(p, run, command, version, root, checked, ver, diags.val,
                            summary.val,
                            _compute_threshold_ok(diags.val, p.fail_on_severity)))

\* Lines 428-485 of run_check: the result for a completed subprocess, or
\* the exception normalisation lets through.
Completion(p, run, command, version, root, checked, parsed) ==
    IF parsed = None
    THEN Returned(ParseFailure(run, command, version, root, checked))
    ELSE Normalized(p, run, command, version, root, checked,
                    DictGet(parsed[1], "version", JNull),
                    NormalizeAll(Or(DictGet(parsed[1], "generalDiagnostics", JList(<<>>)),
                                    JList(<<>>))),
                    NormalizeSummary(Or(DictGet(parsed[1], "summary", JDict(<<>>)),
                                        JDict(<<>>))))

\* AfterRun with the output of a timed-out process parsed like that of a
\* completed one
AfterRun_ParsesPartial(p, run, command, version, root, checked) ==
    IF run.exc = "FileNotFoundError"
    THEN Returned(CheckResult(FALSE, Some(Msg.spawn_failed), command, -1, ZeroSummary,
                              <<>>, version, root, checked, _detect_venv_path))
    ELSE IF run.exc \notin {"", "TimeoutExpired"} THEN Raised(run.exc)
    ELSE Completion(p, run, command, version, root, checked,
                    parse_pyright_json(run.stdout))

\* Lines 373-485 of run_check: the try around subprocess.run catches
\* TimeoutExpired and FileNotFoundError only.
AfterRun(p, run, command, version, root, checked) ==
    IF run.exc = "TimeoutExpired"
    THEN Returned(CheckResult(FALSE,
                              Some(Msg.timeout_head \o IntToStr(p.timeout_sec)
                                       \o Msg.timeout_tail),
                              command, -1, ZeroSummary, <<>>, version, root, checked,
                              _detect_venv_path))
    ELSE IF run.exc = "FileNotFoundError"
    THEN Returned(CheckResult(FALSE, Some(Msg.spawn_failed), command, -1, ZeroSummary,
                              <<>>, version, root, checked, _detect_venv_path))
    ELSE IF run.exc # "" THEN Raised(run.exc)
    ELSE Completion(p, run, command, version, root, checked,
                    parse_pyright_json(run.stdout))

\* root_for_globs of run_check
RootForGlobs(fsys, target) ==
    IF is_dir(fsys, resolve(target)) THEN resolve(target) ELSE resolve(Parent(target))

\* Listed that lists what the expansion found also without include globs
Listed_AlwaysExpands(p, found) ==
    IF found.exc # "" THEN found
    ELSE Returned(SortedPaths(found.val))

\* Lines 320-324 and 363-369: the paths as run_check lists them, from what
\* the expansion found; str(p) of a resolved path is the path.
Listed(p, found) ==
    IF found.exc # "" THEN found
    ELSE IF Given(p.include) THEN Returned(SortedPaths(found.val))
    ELSE Returned(<<resolve(p.target)>>)

ListedPaths(fsys, p) ==
    Listed(p, _iter_included_paths(fsys, RootForGlobs(fsys, p.target), p.include,
                                   p.exclude))

\* analyzed_root of run_check, for a target that exists (lines 310-313)
AnalyzedRoot(fsys, p) ==
    IF p.cwd # None /\ p.cwd[1] # <<>> THEN resolve(p.cwd[1])
    ELSE IF is_dir(fsys, resolve(p.target)) THEN resolve(p.target)
    ELSE resolve(Parent(p.target))

\* analyzed_root of run_check, for a missing target (line 289)
MissingRoot(p) ==
    IF p.cwd # None /\ p.cwd[1] # <<>> THEN resolve(p.cwd[1])
    ELSE resolve(Parent(p.target))

(***************************************************************************)
(* State                                                                   *)
(***************************************************************************)

VARIABLES
    fs,             \* the files that exist
    pc,             \* where run_check is: idle, expand, version, resolve, build,
                    \* run, done (it returned), raised (an exception left it)
    params,         \* the PyrightCheckParams of the call
    analyzed_root,  \* run_check's locals
    checked_paths,
    version_info,
    argv_prefix,
    cmd,
    cp,             \* what subprocess.run of the check did
    spawned,        \* whether the check subprocess was started
    resolutions,    \* the calls of _build_pyright_argv so far
    result,         \* None, or the CheckResult returned
    exc,            \* the exception that left run_check
    call,           \* a pure function under check: its name and arguments
    ret             \* None, or what the function returned

orch == <<pc, params, analyzed_root, checked_paths, version_info, argv_prefix, cmd,
          cp, spawned, resolutions, result, exc>>
vars == <<fs, orch, call, ret>>

\* No call of run_check is under way: its parameters have the defaults of
\* PyrightCheckParams and its locals are empty.
OrchIdle ==
    /\ pc = "idle"
    /\ params = [target |-> <<".">>, cwd |-> None, include |-> None, exclude |-> None,
                 extra_args |-> None, timeout_sec |-> 60,
                 fail_on_severity |-> FailOnNone]
    /\ analyzed_root = <<>>
    /\ checked_paths = <<>>
    /\ version_info = [version |-> <<>>, executable_path |-> <<>>,
                       supports_outputjson |-> FALSE]
    /\ argv_prefix = <<>>
    /\ cmd = <<>>
    /\ cp = RunOutcome("", 0, <<>>, <<>>)
    /\ spawned = FALSE
    /\ resolutions = 0
    /\ result = None
    /\ exc = ""

NoCall == [fn |-> "", args |-> <<>>]

(***************************************************************************)
(* Requests and the environment                                            *)
(***************************************************************************)

\* The calls of run_check: the target is the directory /p, the relative
\* file a.py or a path that does not exist; cwd is absent, a directory or a
\* path that is a file when it exists; include is absent, "*.py", "s*" with
\* "s/c.py", or the empty pattern; exclude is absent, "b.py" or "*";
\* extra_args and timeout_sec vary together; the threshold is none or
\* warning.
Requests ==
    {[target |-> t, cwd |-> c, include |-> i, exclude |-> e, extra_args |-> x[1],
      timeout_sec |-> x[2], fail_on_severity |-> f] :
        t \in {ProcCwd, RelA, <<"/","p","/","n","o","p","e",".","p","y">>},
        c \in {None, Some(DirW), Some(FileA)},
        i \in {None,
               Some(<< <<"*",".","p","y">> >>),
               Some(<< <<"s","*">>, <<"s","/","c",".","p","y">> >>),
               Some(<< <<>> >>)},
        e \in {None, Some(<< <<"b",".","p","y">> >>), Some(<< <<"*">> >>)},
        x \in {<<None, 60>>, <<Some(<< <<"-","-","s","t","a","t","s">> >>), 1>>},
        f \in {FailOnNone, SevWarning}}

\* The requests of the runs whose output is enumerated.
DiagRequests ==
    {[target |-> ProcCwd, cwd |-> None, include |-> None, exclude |-> None,
      extra_args |-> None, timeout_sec |-> 60, fail_on_severity |-> f] : f \in FailOns}

\* What `pyright --version` prints
VersionOutput ==
    <<"p","y","r","i","g","h","t"," ","1",".","1",".","4","0","5","\n">>

\* What the resolver finds at one moment: shutil.which's answer, and what
\* the two probe subprocesses do.
ResolverEnv(which, modrun, verrun) == [which |-> which, modrun |-> modrun, verrun |-> verrun]

\* pyright is on PATH and answers.
EnvExe == ResolverEnv(Some(WhichPyright), Failed("FileNotFoundError"),
                      Completed(0, VersionOutput))

\* pyright on PATH that answers, pyright on PATH whose version probe hangs,
\* pyright as a module only, and no pyright at all.
ResolverEnvs ==
    {EnvExe,
     ResolverEnv(Some(WhichPyright), Failed("FileNotFoundError"), Failed("TimeoutExpired")),
     ResolverEnv(None, Completed(0, VersionOutput), Completed(0, VersionOutput)),
     ResolverEnv(None, Completed(1, <<"N","o"," ","m","o","d","u","l","e","\n">>),
                 Failed("FileNotFoundError"))}

\* The exit code and stderr of a completed check, varied together: pyright
\* exits with 0, with 1 when it reports errors, and with 4 on command-line
\* arguments it does not accept.
Exits == {<<0, <<>> >>, <<1, <<"b","o","o","m","\n">> >>, <<4, <<"u","s","a","g","e","\n">> >>}

\* What the check subprocess can do in a working directory that exists:
\* time out with a report written, fail to start, or complete.
RunOutcomes ==
    {RunOutcome("TimeoutExpired", 0, json_dumps(DocFindings), <<>>),
     RunOutcome("FileNotFoundError", 0, <<>>, <<>>),
     RunOutcome("PermissionError", 0, <<>>, <<>>)}
    \cup {RunOutcome("", x[1], out, x[2]) :
            x \in Exits,
            out \in GarbageTexts
                    \cup {json_dumps(d) : d \in ParsedDocs \cup IllTypedDocs \cup ShapelessDocs}}

DiagOutcomes == {RunOutcome("", x[1], json_dumps(d), x[2]) : x \in Exits, d \in DiagReports}

(***************************************************************************)
(* run_check, step by step                                                 *)
(***************************************************************************)

\* Begin without the test that the target exists
Begin_NoTargetCheck(reqs, envs) ==
    /\ pc = "idle"
    /\ call = NoCall
    /\ \E p \in reqs :
        /\ params' = p
        /\ analyzed_root' = AnalyzedRoot(fs, p)
        /\ pc' = "expand"
    /\ UNCHANGED <<fs, checked_paths, version_info, argv_prefix, cmd, cp, spawned, exc,
                   result, resolutions, call, ret>>

\* Lines 286-313: the missing-target branch, else the analysis root.
Begin(reqs, envs) ==
    /\ pc = "idle"
    /\ call = NoCall
    /\ \E p \in reqs :
        /\ params' = p
        /\ IF ~exists(fs, resolve(p.target))
           THEN \E e \in envs :
                /\ result' = Some(CheckResult(
                                FALSE,
                                Some(Msg.target_not_found \o FromParts(Parts(p.target))),
                                <<>>, 4, ZeroSummary, <<>>,
                                get_pyright_version(e.which, e.modrun, e.verrun).version,
                                MissingRoot(p), <<>>, _detect_venv_path))
                /\ analyzed_root' = MissingRoot(p)
                /\ resolutions' = resolutions + 1
                /\ pc' = "done"
           ELSE /\ analyzed_root' = AnalyzedRoot(fs, p)
                /\ pc' = "expand"
                /\ UNCHANGED <<result, resolutions>>
    /\ UNCHANGED <<fs, checked_paths, version_info, argv_prefix, cmd, cp, spawned, exc,
                   call, ret>>

\* Lines 315-324: checked_paths
ExpandChecked ==
    /\ pc = "expand"
    /\ \E r \in {ListedPaths(fs, params)} :
           IF r.exc # ""
           THEN /\ pc' = "raised"
                /\ exc' = r.exc
                /\ UNCHANGED checked_paths
           ELSE /\ pc' = "version"
                /\ checked_paths' = r.val
                /\ UNCHANGED exc
    /\ UNCHANGED <<fs, params, analyzed_root, version_info, argv_prefix, cmd, cp, spawned,
                   resolutions, result, call, ret>>

\* Line 326: version_info = get_pyright_version()
ProbeVersion(envs) ==
    /\ pc = "version"
    /\ \E e \in envs :
        version_info' = get_pyright_version(e.which, e.modrun, e.verrun)
    /\ resolutions' = resolutions + 1
    /\ pc' = "resolve"
    /\ UNCHANGED <<fs, params, analyzed_root, checked_paths, argv_prefix, cmd, cp, spawned,
                   result, exc, call, ret>>

\* Resolve with the tool-unavailable result of lines 328-350 carrying no
\* checked paths
Resolve_DropsPaths(envs) ==
    /\ pc = "resolve"
    /\ \E e \in envs :
        \E r \in {_build_pyright_argv(e.which, e.modrun)} :
            /\ argv_prefix' = r[1]
            /\ IF r[1] = <<>>
               THEN /\ result' = Some(CheckResult(FALSE, Some(Msg.not_available), <<>>, -1,
                                                  ZeroSummary, <<>>, <<>>, analyzed_root,
                                                  <<>>, _detect_venv_path))
                    /\ pc' = "done"
               ELSE /\ pc' = "build"
                    /\ UNCHANGED result
    /\ resolutions' = resolutions + 1
    /\ UNCHANGED <<fs, params, analyzed_root, checked_paths, version_info, cmd, cp, spawned,
                   exc, call, ret>>

\* Lines 327-350: the resolver, and the branch for an empty prefix
Resolve(envs) ==
    /\ pc = "resolve"
    /\ \E e \in envs :
        \E r \in {_build_pyright_argv(e.which, e.modrun)} :
            /\ argv_prefix' = r[1]
            /\ IF r[1] = <<>>
               THEN /\ result' = Some(CheckResult(FALSE, Some(Msg.not_available), <<>>, -1,
                                                  ZeroSummary, <<>>, <<>>, analyzed_root,
                                                  checked_paths, _detect_venv_path))
                    /\ pc' = "done"
               ELSE /\ pc' = "build"
                    /\ UNCHANGED result
    /\ resolutions' = resolutions + 1
    /\ UNCHANGED <<fs, params, analyzed_root, checked_paths, version_info, cmd, cp, spawned,
                   exc, call, ret>>

\* Lines 352-371: cmd
BuildCommand ==
    /\ pc = "build"
    /\ \E path_args \in {ListedPaths(fs, params)} :
           IF path_args.exc # ""
           THEN /\ pc' = "raised"
                /\ exc' = path_args.exc
                /\ UNCHANGED cmd
           ELSE /\ pc' = "run"
                /\ cmd' = argv_prefix \o << <<"-","-","o","u","t","p","u","t","j","s","o","n">> >>
                            \o (IF Given(params.extra_args) THEN params.extra_args[1]
                                ELSE <<>>)
                            \o path_args.val
                /\ UNCHANGED exc
    /\ UNCHANGED <<fs, params, analyzed_root, checked_paths, version_info, argv_prefix, cp,
                   spawned, resolutions, result, call, ret>>

\* Lines 373-485: subprocess.run in cwd=analyzed_root, and what follows it.
\* A working directory that does not exist, or is no directory, fails the
\* start with FileNotFoundError or NotADirectoryError.
RunPyright(outcomes) ==
    /\ pc = "run"
    /\ \E o \in (IF is_dir(fs, analyzed_root) THEN outcomes
                 ELSE {RunOutcome(IF exists(fs, analyzed_root)
                                  THEN "NotADirectoryError" ELSE "FileNotFoundError",
                                  0, <<>>, <<>>)}) :
        \E r \in {AfterRun(params, o, cmd, version_info.version, analyzed_root,
                          checked_paths)} :
            /\ cp' = o
            /\ IF r.exc # ""
               THEN /\ pc' = "raised"
                    /\ exc' = r.exc
                    /\ UNCHANGED result
               ELSE /\ pc' = "done"
                    /\ result' = Some(r.val)
                    /\ UNCHANGED exc
    /\ spawned' = TRUE
    /\ UNCHANGED <<fs, params, analyzed_root, checked_paths, version_info, argv_prefix, cmd,
                   resolutions, call, ret>>

Init ==
    /\ fs \in {Files, Files \ {FileA}}
    /\ OrchIdle
    /\ call = NoCall
    /\ ret = None

Next ==
    \/ Begin(Requests, ResolverEnvs)
    \/ ExpandChecked
    \/ ProbeVersion(ResolverEnvs)
    \/ Resolve(ResolverEnvs)
    \/ BuildCommand
    \/ RunPyright(RunOutcomes)

Spec == Init /\ [][Next]_vars

\* The runs whose reports are enumerated: one resolver environment, every
\* report of at most MaxDiags entries.
InitDiag ==
    /\ fs = Files
    /\ OrchIdle
    /\ call = NoCall
    /\ ret = None

NextDiag ==
    \/ Begin(DiagRequests, {EnvExe})
    \/ ExpandChecked
    \/ ProbeVersion({EnvExe})
    \/ Resolve({EnvExe})
    \/ BuildCommand
    \/ RunPyright(DiagOutcomes)

SpecDiag == InitDiag /\ [][NextDiag]_vars

(***************************************************************************)
(* run_check while another process changes the files                       *)
(***************************************************************************)

\* The calls of the runs with a changing file system: the directory /p,
\* without include globs and with two lists of them.
RaceRequests ==
    {[target |-> ProcCwd, cwd |-> None, include |-> i, exclude |-> e, extra_args |-> x,
      timeout_sec |-> 60, fail_on_severity |-> FailOnNone] :
        i \in {None, Some(<< <<"*",".","p","y">> >>),
               Some(<< <<"s","*">>, <<"s","/","c",".","p","y">> >>)},
        e \in {None, Some(<< <<"b",".","p","y">> >>)},
        x \in {None, Some(<< <<"-","-","s","t","a","t","s">> >>)}}

\* Another process creates or removes a file while run_check is under way:
\* every glob, is_file and rglob of the expansion reads the file system as
\* it is at that moment.
FsChange ==
    /\ pc \in {"expand", "version", "resolve", "build", "run"}
    /\ \E f \in Files : fs' = IF f \in fs THEN fs \ {f} ELSE fs \cup {f}
    /\ UNCHANGED <<orch, call, ret>>

NextRace ==
    \/ Begin(RaceRequests, {EnvExe})
    \/ ExpandChecked
    \/ ProbeVersion({EnvExe})
    \/ Resolve({EnvExe})
    \/ BuildCommand
    \/ RunPyright({RunOutcome("", 0, json_dumps(DocFindings), <<>>),
                   RunOutcome("TimeoutExpired", 0, <<>>, <<>>)})
    \/ FsChange

SpecRace == Init /\ [][NextRace]_vars

(***************************************************************************)
(* The threshold evaluator on its own                                      *)
(***************************************************************************)

\* The longest list the evaluator is given.
MaxScan == 3

\* The calls of the evaluator: lists of normalised diagnostics, one of
\* each severity to choose from, and every threshold.
ThresholdCalls ==
    {[fn |-> "_compute_threshold_ok", args |-> <<ds, th>>] :
        ds \in SeqsUpTo({_normalize_diag(raw).val : raw \in {RawB, RawA2, RawA2tie}},
                        MaxScan),
        th \in FailOns}

InitThreshold ==
    /\ fs = Files
    /\ OrchIdle
    /\ call \in ThresholdCalls
    /\ ret = None

\* _compute_threshold_ok(diags, threshold) returns
EvaluateThreshold ==
    /\ call.fn = "_compute_threshold_ok"
    /\ ret = None
    /\ ret' = Some(_compute_threshold_ok(call.args[1], call.args[2]))
    /\ UNCHANGED <<fs, orch, call>>

SpecThreshold == InitThreshold /\ [][EvaluateThreshold]_vars

(***************************************************************************)
(* The version probe on its own                                            *)
(***************************************************************************)

\* The calls of get_pyright_version: what shutil.which answers, what the
\* module probe does and what the version subprocess does, each succeeding,
\* answering oddly, failing to start and timing out.
VersionCalls ==
    {[fn |-> "get_pyright_version", args |-> <<ResolverEnv(w, m, v)>>] :
        w \in {None, Some(WhichPyright)},
        m \in {Completed(0, VersionOutput), Completed(0, <<>>),
               Completed(1, <<"N","o"," ","m","o","d","u","l","e","\n">>),
               Failed("FileNotFoundError"), Failed("TimeoutExpired")},
        v \in {Completed(0, VersionOutput), Completed(0, <<>>),
               Completed(0, <<"1",".","1",".","4","0","5">>),
               Completed(0, <<"p","y","r","i","g","h","t"," ","1",".","1","\n">>),
               Completed(1, <<" ","b","r","o","k","e","n","\n">>),
               Failed("FileNotFoundError"), Failed("PermissionError"),
               Failed("TimeoutExpired")}}

InitVersion ==
    /\ fs = Files
    /\ OrchIdle
    /\ call \in VersionCalls
    /\ ret = None

\* get_pyright_version() returns
EvaluateVersion ==
    /\ call.fn = "get_pyright_version"
    /\ ret = None
    /\ ret' = Some(get_pyright_version(call.args[1].which, call.args[1].modrun,
                                       call.args[1].verrun))
    /\ UNCHANGED <<fs, orch, call>>

SpecVersion == InitVersion /\ [][EvaluateVersion]_vars

(***************************************************************************)
(* Configuration discovery (src/src/pyright_mcp/config.py)                 *)
(***************************************************************************)

\* re.search(r"(?m)^\s*\[tool\.pyright\]\s*$", text) matches with the header
\* at index i: only white space lies between a line start and the header,
\* and between the header and a line end.
HeaderAt(text, i) ==
    /\ i + 13 <= Len(text)
    /\ SubSeq(text, i, i + 13) = <<"[","t","o","o","l",".","p","y","r","i","g","h","t","]">>
    /\ \/ SkipSpaceBack(text, i - 1) = 0
       \/ \E k \in (SkipSpaceBack(text, i - 1) + 1)..(i - 1) : text[k] = "\n"
    /\ \/ SkipSpace(text, i + 14) > Len(text)
       \/ \E k \in (i + 14)..(SkipSpace(text, i + 14) - 1) : text[k] = "\n"

\* _has_pyright_section_in_pyproject(pyproject_path); read is what
\* read_text did: the text, or the OSError it raised.
_has_pyright_section_in_pyproject(read) ==
    IF read.exc # "" THEN FALSE
    ELSE \E i \in 1..Len(read.val) : HeaderAt(read.val, i)

FindConfigResultModel(found, config_path, kind, resolve_dir, searched_from) ==
    [found |-> found, config_path |-> config_path, kind |-> kind,
     resolve_dir |-> resolve_dir, searched_from |-> searched_from]

\* The loop of find_pyright_config from directory cur on.  cfs is the file
\* system: json the directories that hold a file pyrightconfig.json, toml
\* what reading the pyproject.toml of a directory that holds one gives,
\* denied the directories whose entries may not be examined (is_file passes
\* on every OSError but the missing-file ones).
RECURSIVE ConfigWalk(_, _, _)
ConfigWalk(cfs, cur, start) ==
    IF cur \in cfs.denied THEN Raised("PermissionError")
    ELSE IF cur \in cfs.json
    THEN Returned(FindConfigResultModel(
             TRUE, Some(FromParts(Parts(cur) \o <<<<"p","y","r","i","g","h","t","c","o","n","f","i","g",".","j","s","o","n">>>>)),
             Some("pyrightconfig.json"), cur, start))
    ELSE IF cur \in DOMAIN cfs.toml /\ _has_pyright_section_in_pyproject(cfs.toml[cur])
    THEN Returned(FindConfigResultModel(
             TRUE, Some(FromParts(Parts(cur) \o <<<<"p","y","p","r","o","j","e","c","t",".","t","o","m","l">>>>)),
             Some("pyproject.toml"), cur, start))
    ELSE IF Parent(cur) = cur
    THEN Returned(FindConfigResultModel(FALSE, None, None, start, start))
    ELSE ConfigWalk(cfs, Parent(cur), start)

\* find_pyright_config(start_dir): start_dir None is Path.cwd()
find_pyright_config(cfs, start_dir) ==
    ConfigWalk(cfs, resolve(IF start_dir = None THEN ProcCwd ELSE start_dir[1]),
               resolve(IF start_dir = None THEN ProcCwd ELSE start_dir[1]))

\* The calls of find_pyright_config: from the working directory /p, from
\* /p/s and from a path below it that is given relative; with or without a
\* pyrightconfig.json in each of /, /p and /p/s; with no pyproject.toml, an
\* unreadable one, or one of four texts in /p and /p/s (a header that is
\* indented and followed by blanks, a header alone without line end, a
\* header in a comment, a longer section name), and none or the bare header
\* in /; with every directory open or /p closed.
ConfigCalls ==
    {[fn |-> "find_pyright_config",
      args |-> <<[json |-> j,
                  toml |-> [d \in {x \in {Slash, ProcCwd, <<"/","p","/","s">>} :
                                      (IF x = Slash THEN t0 ELSE IF x = ProcCwd THEN t1 ELSE t2)
                                          # None} |->
                               (IF d = Slash THEN t0 ELSE IF d = ProcCwd THEN t1 ELSE t2)[1]],
                  denied |-> den],
                 s>>] :
        j \in SUBSET {Slash, ProcCwd, <<"/","p","/","s">>},
        t0 \in {None, Some(Returned(<<"[","t","o","o","l",".","p","y","r","i","g","h","t","]">>))},
        t1 \in {None, Some(Raised("PermissionError")), Some(Returned(<<"[","p","r","o","j","e","c","t","]","\n"," "," ","[","t","o","o","l",".","p","y","r","i","g","h","t","]"," "," ","\n","x"," ","="," ","1","\n">>)),
                Some(Returned(<<"[","t","o","o","l",".","p","y","r","i","g","h","t","]">>)), Some(Returned(<<"#"," ","[","t","o","o","l",".","p","y","r","i","g","h","t","]","\n">>)), Some(Returned(<<"[","t","o","o","l",".","p","y","r","i","g","h","t",".","x","]","\n">>))},
        t2 \in {None, Some(Raised("PermissionError")), Some(Returned(<<"[","p","r","o","j","e","c","t","]","\n"," "," ","[","t","o","o","l",".","p","y","r","i","g","h","t","]"," "," ","\n","x"," ","="," ","1","\n">>)),
                Some(Returned(<<"[","t","o","o","l",".","p","y","r","i","g","h","t","]">>)), Some(Returned(<<"#"," ","[","t","o","o","l",".","p","y","r","i","g","h","t","]","\n">>)), Some(Returned(<<"[","t","o","o","l",".","p","y","r","i","g","h","t",".","x","]","\n">>))},
        den \in {{}, {ProcCwd}},
        s \in {None, Some(<<"/","p","/","s">>), Some(<<"s","/","c",".","p","y">>)}}

InitConfig ==
    /\ fs = Files
    /\ OrchIdle
    /\ call \in ConfigCalls
    /\ ret = None

\* find_pyright_config(start_dir) returns or raises
EvaluateConfig ==
    /\ call.fn = "find_pyright_config"
    /\ ret = None
    /\ ret' = Some(find_pyright_config(call.args[1], call.args[2]))
    /\ UNCHANGED <<fs, orch, call>>

SpecConfig == InitConfig /\ [][EvaluateConfig]_vars

(***************************************************************************)
(* Text tests the properties are written with                              *)
(***************************************************************************)

\* s.lower()
lower(s) ==
    [i \in 1..Len(s) |->
        IF \E k \in 1..26 : UpperCase[k] = s[i]
        THEN LowerCase[CHOOSE k \in 1..26 : UpperCase[k] = s[i]]
        ELSE s[i]]

\* sub in s
Contains(s, sub) ==
    \E i \in 0..(Len(s) - Len(sub)) : SubSeq(s, i + 1, i + Len(sub)) = sub

\* s.endswith(p)
EndsWith(s, p) == Len(p) <= Len(s) /\ SubSeq(s, Len(s) - Len(p) + 1, Len(s)) = p

(***************************************************************************)
(* Properties of the threshold evaluator                                   *)
(***************************************************************************)

\* The level a threshold stands for (spec, section on severity levels)
LevelOfThreshold(th) ==
    CASE th = SevInformation -> 1
      [] th = SevWarning -> 2
      [] th = SevError -> 3

\* ds in the order perm
Permuted(ds, perm) == [i \in 1..Len(ds) |-> ds[perm[i]]]

\* The largest severity_level of a non-empty list
MaxLevel(ds) ==
    CHOOSE m \in {ds[i].severity_level : i \in 1..Len(ds)} :
        \A i \in 1..Len(ds) : ds[i].severity_level <= m

\* C9: the evaluator answers not-ok exactly when the threshold is not "none"
\* and some diagnostic's severity_level is at least the threshold's level;
\* "none" answers (ok, no reason) for every list, an empty list is ok for
\* every threshold, and every reordering of the list gets the same verdict.
C9_VerdictIsThresholdBreach ==
    ret # None =>
        /\ ~ret[1][1] <=>
              /\ call.args[2] # FailOnNone
              /\ \E i \in 1..Len(call.args[1]) :
                    call.args[1][i].severity_level >= LevelOfThreshold(call.args[2])
        /\ call.args[2] = FailOnNone => ret[1] = <<TRUE, None>>
        /\ call.args[1] = <<>> => ret[1][1]
        /\ \A perm \in Permutations(1..Len(call.args[1])) :
              _compute_threshold_ok(Permuted(call.args[1], perm), call.args[2])[1]
                  = ret[1][1]

\* Threshold "none" was given a list of errors only, and a breach was found
\* in a list of several severities.
C9_Witness ==
    /\ ret # None
    /\ call.args[2] = FailOnNone
    /\ Len(call.args[1]) = 2
    /\ \A i \in 1..2 : call.args[1][i].severity = SevError
    /\ ret[1][1]

\* C10: a not-ok verdict's reason names the largest severity_level of the
\* whole list.
C10_ReasonNamesMaximum ==
    (ret # None /\ ~ret[1][1]) =>
        /\ ret[1][2] # None
        /\ EndsWith(ret[1][2][1],
                    Msg.breach_mid \o IntToStr(MaxLevel(call.args[1])) \o Msg.breach_tail)

(***************************************************************************)
(* Properties of run_check                                                 *)
(***************************************************************************)

TenFields ==
    {"ok", "fail_reason", "command", "exit_code", "summary", "diagnostics",
     "pyright_version", "analyzed_root", "checked_paths", "venv_path"}

\* Every counter of a summary is zero.
AllZero(summary) == \A k \in DOMAIN summary : summary[k] = 0

\* run_check returned a result.
Returned_ == pc = "done" /\ result # None

\* The check subprocess ran to its end: a subprocess result exists.
Ended == spawned /\ cp.exc = ""

PhraseNotFound == <<"n","o","t"," ","f","o","u","n","d">>
PhraseTimeout == <<"t","i","m","e","o","u","t">>

\* C1: run_check never raises: whatever the request, the outcome of
\* starting the checker and its output, it returns a CheckResult with all
\* ten fields.
C1_NeverRaises ==
    /\ pc # "raised"
    /\ pc = "done" => result # None /\ DOMAIN result[1] = TenFields

\* C2: a call whose target does not exist ends at once with ok=false,
\* exit_code=4, a reason containing "not found", no command, no checked
\* paths, no diagnostics and a zero summary, and never starts the check
\* subprocess, whatever the resolver finds.
C2_MissingTargetResult ==
    (pc # "idle" /\ ~exists(fs, resolve(params.target))) =>
        /\ Returned_
        /\ ~spawned
        /\ result[1].ok = FALSE
        /\ result[1].exit_code = 4
        /\ result[1].fail_reason # None
        /\ Contains(lower(result[1].fail_reason[1]), PhraseNotFound)
        /\ result[1].command = <<>>
        /\ result[1].checked_paths = <<>>
        /\ result[1].diagnostics = <<>>
        /\ AllZero(result[1].summary)

\* The target is missing and the resolver found no checker either.
C2_Witness ==
    /\ Returned_
    /\ ~exists(fs, resolve(params.target))
    /\ result[1].exit_code = 4
    /\ result[1].pyright_version = <<>>

\* C3: when the target exists and the resolver returns an empty prefix, the
\* result is ok=false, exit_code=-1, no command, a reason, no diagnostics,
\* a zero summary, the check subprocess is not started, and checked_paths
\* is what the target expander computes for the request.
C3_ToolUnavailableResult ==
    (pc = "done" /\ exists(fs, resolve(params.target)) /\ argv_prefix = <<>>) =>
        /\ result # None
        /\ ~spawned
        /\ result[1].ok = FALSE
        /\ result[1].exit_code = -1
        /\ result[1].command = <<>>
        /\ result[1].fail_reason # None
        /\ result[1].fail_reason[1] # <<>>
        /\ result[1].diagnostics = <<>>
        /\ AllZero(result[1].summary)
        /\ result[1].checked_paths =
              IF Given(params.include)
              THEN SortedPaths(_iter_included_paths(fs, RootForGlobs(fs, params.target),
                                                    params.include, params.exclude).val)
              ELSE <<resolve(params.target)>>

\* No checker was found for a request whose include patterns select
\* several files.
C3_Witness ==
    /\ Returned_
    /\ exists(fs, resolve(params.target))
    /\ argv_prefix = <<>>
    /\ result[1].exit_code = -1
    /\ Given(params.include)
    /\ Len(result[1].checked_paths) >= 2

\* C4: when the check subprocess times out, the result is ok=false,
\* exit_code=-1, a reason that mentions the timeout and timeout_sec, no
\* diagnostics and a zero summary whatever the process had written, with
\* command, analyzed_root and checked_paths as computed.
C4_TimeoutResult ==
    (pc \in {"done", "raised"} /\ spawned /\ cp.exc = "TimeoutExpired") =>
        /\ Returned_
        /\ result[1].ok = FALSE
        /\ result[1].exit_code = -1
        /\ result[1].fail_reason # None
        /\ Contains(lower(result[1].fail_reason[1]), PhraseTimeout)
        /\ Contains(result[1].fail_reason[1], IntToStr(params.timeout_sec))
        /\ result[1].diagnostics = <<>>
        /\ AllZero(result[1].summary)
        /\ result[1].command = cmd
        /\ result[1].command # <<>>
        /\ result[1].analyzed_root = analyzed_root
        /\ result[1].analyzed_root # <<>>
        /\ result[1].checked_paths = checked_paths

\* The check timed out after it had written part of a report.
C4_Witness ==
    /\ Returned_
    /\ spawned
    /\ cp.exc = "TimeoutExpired"
    /\ cp.stdout # <<>>
    /\ params.timeout_sec = 1
    /\ result[1].checked_paths # <<>>

\* text is no JSON text, or a JSON text whose top level is no mapping or
\* lacks one of the two keys.
Unstructured(text) ==
    \/ text \notin DOMAIN DocOf
    \/ TypeOf(DocOf[text]) # "dict"
    \/ ~\E i \in 1..Len(ValOf(DocOf[text])) : ValOf(DocOf[text])[i][1] = "summary"
    \/ ~\E i \in 1..Len(ValOf(DocOf[text])) :
            ValOf(DocOf[text])[i][1] = "generalDiagnostics"

\* The last n characters of s, all of s when it has fewer
LastChars(s, n) == IF Len(s) <= n THEN s ELSE SubSeq(s, Len(s) - n + 1, Len(s))

\* C5: parse_pyright_json answers null exactly for a text that is no JSON,
\* no mapping at top level, or lacks 'summary' or 'generalDiagnostics'; and
\* when the stdout of a completed check parses to null, run_check returns
\* ok=false, no diagnostics, a zero summary, the subprocess's exit code, and
\* a reason ending with the last (at most 1000) characters of the stripped
\* stdout + newline + stderr.
C5_ParseNullResult ==
    (pc \in {"done", "raised"} /\ Ended) =>
        /\ parse_pyright_json(cp.stdout) = None <=> Unstructured(cp.stdout)
        /\ Unstructured(cp.stdout) =>
              /\ Returned_
              /\ result[1].ok = FALSE
              /\ result[1].diagnostics = <<>>
              /\ AllZero(result[1].summary)
              /\ result[1].exit_code = cp.returncode
              /\ result[1].fail_reason # None
              /\ EndsWith(result[1].fail_reason[1],
                          LastChars(strip(cp.stdout \o <<"\n">> \o cp.stderr), 1000))

\* A completed check exited with a code other than 0 after printing more
\* than 1000 characters that are no JSON.
C5_Witness ==
    /\ Returned_
    /\ Ended
    /\ Unstructured(cp.stdout)
    /\ Len(strip(cp.stdout \o <<"\n">> \o cp.stderr)) > 1000
    /\ cp.returncode # 0
    /\ result[1].exit_code = cp.returncode

\* The verdict the threshold asks for on a list of normalised diagnostics
VerdictFor(diags, threshold) ==
    \/ threshold = FailOnNone
    \/ \A i \in 1..Len(diags) : diags[i].severity_level < LevelOfThreshold(threshold)

\* C6 as claimed: when the check completes and its output parses, exit_code
\* is the subprocess's exit code and ok follows from the diagnostics and
\* the threshold alone; and exit_code is -1 or 4 only when no subprocess
\* result exists.
C6_ExitCodeOnlyWithoutResult ==
    /\ (Returned_ /\ Ended /\ ~Unstructured(cp.stdout)) =>
          /\ result[1].exit_code = cp.returncode
          /\ result[1].ok = VerdictFor(result[1].diagnostics, params.fail_on_severity)
    /\ (Returned_ /\ result[1].exit_code \in {-1, 4}) => ~Ended

\* C6, amended: when the check completes and its output parses, exit_code
\* is the subprocess's exit code and ok follows from the diagnostics and
\* the threshold alone; a result without a subprocess result has exit_code
\* -1 or 4, and a result with one has the subprocess's code, whatever it is.
C6_ExitCodeIsSubprocessCode ==
    /\ (Returned_ /\ Ended /\ ~Unstructured(cp.stdout)) =>
          /\ result[1].exit_code = cp.returncode
          /\ result[1].ok = VerdictFor(result[1].diagnostics, params.fail_on_severity)
    /\ (Returned_ /\ ~Ended) => result[1].exit_code \in {-1, 4}
    /\ (Returned_ /\ Ended) => result[1].exit_code = cp.returncode

\* A check that exited with 0 is not ok under the threshold.
C6_Witness ==
    /\ Returned_
    /\ Ended
    /\ ~Unstructured(cp.stdout)
    /\ result[1].ok = FALSE
    /\ result[1].exit_code = 0

\* A check that exited with another code than 0 is ok.
C6_WitnessOkNonZero ==
    /\ Returned_
    /\ Ended
    /\ ~Unstructured(cp.stdout)
    /\ result[1].ok
    /\ result[1].exit_code # 0

(***************************************************************************)
(* Properties of the diagnostics of a result                               *)
(***************************************************************************)

\* The generalDiagnostics entries of the report the check printed
RawEntries == ValOf(DocOf[cp.stdout])[CHOOSE i \in 1..Len(ValOf(DocOf[cp.stdout])) :
                  ValOf(DocOf[cp.stdout])[i][1] = "generalDiagnostics"][2][2]

\* Diagnostic a comes strictly before b in the order of (file,
\* range.start.line, range.start.character).
ComesBefore(a, b) ==
    \/ StrLess(a.file, b.file)
    \/ a.file = b.file /\ a.range.start.line < b.range.start.line
    \/ /\ a.file = b.file
       /\ a.range.start.line = b.range.start.line
       /\ a.range.start.character < b.range.start.character

\* Diagnostics a and b tie on the three keys.
Ties(a, b) == ~ComesBefore(a, b) /\ ~ComesBefore(b, a)

\* The raw severity of a raw entry is the known severity sev.
RawSeverityIs(raw, sev) ==
    \E i \in 1..Len(ValOf(raw)) : ValOf(raw)[i] = <<"severity", <<"str", sev>> >>

\* C7: the diagnostics of every result are in ascending order of (file,
\* range.start.line, range.start.character) and sorting them again changes
\* nothing; after a parsed report they are the normalised raw entries, one
\* for each, and entries that tie on the key keep the report's order.
C7_SortedOnePerEntry ==
    Returned_ =>
        /\ \A i, j \in 1..Len(result[1].diagnostics) :
              i < j => ~ComesBefore(result[1].diagnostics[j], result[1].diagnostics[i])
        /\ SortDiags(result[1].diagnostics) = result[1].diagnostics
        /\ (Ended /\ ~Unstructured(cp.stdout)) =>
              \A norm \in {[i \in 1..Len(RawEntries) |-> _normalize_diag(RawEntries[i]).val]} :
                  /\ Len(result[1].diagnostics) = Len(norm)
                  /\ \E perm \in Permutations(1..Len(norm)) :
                        /\ \A i \in 1..Len(norm) : result[1].diagnostics[perm[i]] = norm[i]
                        /\ \A i, j \in 1..Len(norm) :
                              (i < j /\ Ties(norm[i], norm[j])) => perm[i] < perm[j]

\* A report whose first entry sorts last and whose other two entries tie on
\* the key and differ.
C7_Witness ==
    /\ Returned_
    /\ Ended
    /\ Len(RawEntries) = 3
    /\ result[1].diagnostics[3] = _normalize_diag(RawEntries[1]).val
    /\ Ties(result[1].diagnostics[1], result[1].diagnostics[2])
    /\ result[1].diagnostics[1] # result[1].diagnostics[2]
    /\ ~Ties(result[1].diagnostics[2], result[1].diagnostics[3])

\* C8: every diagnostic of every result has one of the three severities and
\* the severity_level of the table for it; the raw entries with severity
\* warning and error keep it and every other raw entry, whatever its
\* severity says or lacks, becomes information with level 1.
C8_SeverityTable ==
    Returned_ =>
        /\ \A i \in 1..Len(result[1].diagnostics) :
              \/ /\ result[1].diagnostics[i].severity = SevInformation
                 /\ result[1].diagnostics[i].severity_level = 1
              \/ /\ result[1].diagnostics[i].severity = SevWarning
                 /\ result[1].diagnostics[i].severity_level = 2
              \/ /\ result[1].diagnostics[i].severity = SevError
                 /\ result[1].diagnostics[i].severity_level = 3
        /\ (Ended /\ ~Unstructured(cp.stdout)) =>
              \A raw \in {RawEntries} :
                  /\ Len(result[1].diagnostics) = Len(raw)
                  /\ \A sev \in {SevWarning, SevError} :
                      Cardinality({i \in 1..Len(result[1].diagnostics) :
                                      result[1].diagnostics[i].severity = sev})
                          = Cardinality({i \in 1..Len(raw) : RawSeverityIs(raw[i], sev)})

\* A report with an entry of severity "hint", an entry without severity and
\* an error.
C8_Witness ==
    /\ Returned_
    /\ Ended
    /\ Len(RawEntries) = 3
    /\ \E i \in 1..3 : RawSeverityIs(RawEntries[i], <<"h","i","n","t">>)
    /\ \E i \in 1..3 : \A k \in 1..Len(ValOf(RawEntries[i])) :
            ValOf(RawEntries[i])[k][1] # "severity"
    /\ \E i \in 1..3 : RawSeverityIs(RawEntries[i], SevError)
    /\ Cardinality({i \in 1..3 : result[1].diagnostics[i].severity = SevInformation}) = 2

(***************************************************************************)
(* Properties of the summary of a result                                   *)
(***************************************************************************)

\* The value the printed report's summary gives for key
Reported(key) ==
    ValOf(DictGet(DictGet(DocOf[cp.stdout], "summary", JNull), key, JNull))

\* The number of diagnostics of the result with severity sev
CountOf(sev) ==
    Cardinality({i \in 1..Len(result[1].diagnostics) :
                    result[1].diagnostics[i].severity = sev})

\* C11: after a parsed report the four counters of the result's summary are
\* the report's filesAnalyzed, errorCount, warningCount and informationCount
\* as printed, whatever the diagnostics are.
C11_SummaryVerbatim ==
    (Returned_ /\ Ended /\ ~Unstructured(cp.stdout)) =>
        /\ result[1].summary.files_analyzed = Reported("filesAnalyzed")
        /\ result[1].summary.error_count = Reported("errorCount")
        /\ result[1].summary.warning_count = Reported("warningCount")
        /\ result[1].summary.information_count = Reported("informationCount")

\* A report that counts four warnings and no error lists three errors.
C11_Witness ==
    /\ Returned_
    /\ Ended
    /\ ~Unstructured(cp.stdout)
    /\ CountOf(SevError) = 3
    /\ CountOf(SevWarning) = 0
    /\ result[1].summary.error_count = 0
    /\ result[1].summary.warning_count = 4
    /\ result[1].summary.files_analyzed = 7

(***************************************************************************)
(* Properties of the paths given to the checker                            *)
(***************************************************************************)

\* The explicit path arguments of the command: what follows the prefix,
\* the output flag and the extra arguments
PathArgs ==
    SubSeq(cmd,
           Len(argv_prefix) + 2
               + (IF Given(params.extra_args) THEN Len(params.extra_args[1]) ELSE 0),
           Len(cmd))

\* The files the include and exclude rules of the request select
Selected ==
    _iter_included_paths(fs, RootForGlobs(fs, params.target), params.include,
                         params.exclude).val

\* The files under the target root that the rules filter out
FilteredOut == {f \in fs : IsUnder(f, RootForGlobs(fs, params.target))} \ Selected

\* The files a checker analyses that takes its explicit path arguments and,
\* given none, its whole working directory
AnalysedFiles ==
    IF PathArgs = <<>> THEN {f \in fs : IsUnder(f, analyzed_root)}
    ELSE {f \in fs : \E i \in 1..Len(PathArgs) : IsUnder(f, PathArgs[i])}

\* The report names only files the checker analysed.
CheckerKeepsToScope ==
    \A i \in 1..Len(result[1].diagnostics) : result[1].diagnostics[i].file \in AnalysedFiles

\* C12: with include globs given, no file that the include and exclude
\* rules filter out is a path argument of the command, and, under a checker
\* that analyses its path arguments or else its working directory, no
\* diagnostic of the result names such a file.
C12_FilteredNeverReported ==
    (Returned_ /\ spawned /\ Given(params.include)) =>
        /\ \A i \in 1..Len(PathArgs) : PathArgs[i] \notin FilteredOut
        /\ (Ended /\ CheckerKeepsToScope) =>
              \A i \in 1..Len(result[1].diagnostics) :
                  result[1].diagnostics[i].file \notin FilteredOut

\* The exclude lists a request can carry
ExcludeLists == {r.exclude : r \in Requests}

\* C13: without include globs the exclude globs change nothing: the
\* checked paths, and the path arguments of the command once it is built,
\* are the resolved target alone, the command is the prefix, the output
\* flag, the extra arguments and that path, and the same request under any
\* other exclude list gets the same paths.
C13_ExcludeAloneHasNoEffect ==
    (~Given(params.include) /\ pc \in {"version", "resolve", "build", "run", "done"}
        /\ exists(fs, resolve(params.target))) =>
        /\ checked_paths = <<resolve(params.target)>>
        /\ \A e \in ExcludeLists :
              ListedPaths(fs, [params EXCEPT !.exclude = e]) = Returned(checked_paths)
        /\ cmd # <<>> =>
              /\ PathArgs = checked_paths
              /\ cmd = argv_prefix \o << <<"-","-","o","u","t","p","u","t","j","s","o","n">> >>
                          \o (IF Given(params.extra_args) THEN params.extra_args[1] ELSE <<>>)
                          \o <<resolve(params.target)>>
        /\ Returned_ =>
              /\ result[1].checked_paths = checked_paths
              /\ result[1].command = cmd

\* A check of the file a.py alone ran under an exclude pattern that matches
\* the file's name.
C13_Witness ==
    /\ Returned_
    /\ spawned
    /\ ~Given(params.include)
    /\ params.target = RelA
    /\ params.exclude = Some(<< <<"*">> >>)
    /\ result[1].checked_paths = <<FileA>>
    /\ result[1].command # <<>>

\* The list holds no path twice and is in ascending order of the paths as
\* strings.
StringSorted(paths) ==
    \A i, j \in 1..Len(paths) : i < j => StrLess(paths[i], paths[j])

\* C14: with include globs given, checked_paths and the path arguments of
\* the command hold each selected file exactly once and are in ascending
\* order of the paths' string form.
C14_OncePerFileInStringOrder ==
    (Given(params.include) /\ pc \in {"version", "resolve", "build", "run", "done"}
        /\ exists(fs, resolve(params.target))) =>
        /\ {checked_paths[i] : i \in 1..Len(checked_paths)} = Selected
        /\ Len(checked_paths) = Cardinality(Selected)
        /\ StringSorted(checked_paths)
        /\ cmd # <<>> =>
              /\ {PathArgs[i] : i \in 1..Len(PathArgs)} = Selected
              /\ Len(PathArgs) = Cardinality(Selected)
              /\ StringSorted(PathArgs)

(***************************************************************************)
(* Properties of the version probe                                         *)
(***************************************************************************)

\* The probe of the call failed: no invocation was resolved, or the version
\* subprocess did not start or timed out.
ProbeFailed ==
    \/ _build_pyright_argv(call.args[1].which, call.args[1].modrun)[1] = <<>>
    \/ call.args[1].verrun.exc # ""

\* C15: get_pyright_version returns a VersionInfo whatever the probes do,
\* and when the probe fails all its fields are empty: version "",
\* executable_path "", supports_outputjson false.
C15_FailedProbeIsEmpty ==
    ret # None =>
        /\ DOMAIN ret[1] = {"version", "executable_path", "supports_outputjson"}
        /\ ProbeFailed =>
              ret[1] = [version |-> <<>>, executable_path |-> <<>>,
                        supports_outputjson |-> FALSE]

(***************************************************************************)
(* Properties of configuration discovery                                   *)
(***************************************************************************)

\* The directory and its ancestors, nearest first
RECURSIVE Ancestors(_)
Ancestors(p) == IF Parent(p) = p THEN <<p>> ELSE <<p>> \o Ancestors(Parent(p))

\* The directory the search of the call starts from
SearchStart == resolve(IF call.args[2] = None THEN ProcCwd ELSE call.args[2][1])

\* The pyproject.toml texts with a [tool.pyright] section
SectionTexts == {<<"[","p","r","o","j","e","c","t","]","\n"," "," ","[","t","o","o","l",".","p","y","r","i","g","h","t","]"," "," ","\n","x"," ","="," ","1","\n">>, <<"[","t","o","o","l",".","p","y","r","i","g","h","t","]">>}

\* Directory d holds a pyrightconfig.json; it holds a readable
\* pyproject.toml with a [tool.pyright] section
HoldsJson(d) == d \in call.args[1].json
HoldsSection(d) ==
    /\ d \in DOMAIN call.args[1].toml
    /\ call.args[1].toml[d].exc = ""
    /\ call.args[1].toml[d].val \in SectionTexts

\* The positions on the walk of the directories with a configuration
Configured ==
    {i \in 1..Len(Ancestors(SearchStart)) :
        HoldsJson(Ancestors(SearchStart)[i]) \/ HoldsSection(Ancestors(SearchStart)[i])}

\* The nearest directory with a configuration
Nearest == Ancestors(SearchStart)[CHOOSE i \in Configured : \A j \in Configured : i <= j]

\* The result of the search for a walk that meets a configuration, and
\* for one that meets none
ExpectedConfig ==
    IF Configured = {}
    THEN [found |-> FALSE, config_path |-> None, kind |-> None,
          resolve_dir |-> SearchStart, searched_from |-> SearchStart]
    ELSE IF HoldsJson(Nearest)
    THEN [found |-> TRUE,
          config_path |-> Some(FromParts(Parts(Nearest) \o <<<<"p","y","r","i","g","h","t","c","o","n","f","i","g",".","j","s","o","n">>>>)),
          kind |-> Some("pyrightconfig.json"),
          resolve_dir |-> Nearest, searched_from |-> SearchStart]
    ELSE [found |-> TRUE,
          config_path |-> Some(FromParts(Parts(Nearest) \o <<<<"p","y","p","r","o","j","e","c","t",".","t","o","m","l">>>>)),
          kind |-> Some("pyproject.toml"),
          resolve_dir |-> Nearest, searched_from |-> SearchStart]

\* C16: find_pyright_config never fails: it returns the configuration of
\* the nearest directory on the walk from the resolved start directory to
\* the root that has one, pyrightconfig.json before a pyproject.toml with a
\* [tool.pyright] section, with resolve_dir that directory; and when no
\* directory on the walk has one, found=false, no config_path, no kind and
\* resolve_dir = searched_from = the resolved start directory.
C16_NearestConfigNeverFails ==
    ret # None =>
        /\ ret[1].exc = ""
        /\ ret[1].val = ExpectedConfig

(***************************************************************************)
(* Properties of the defaults of normalisation                             *)
(***************************************************************************)

\* The number a raw value stands for: itself when it is a number, else 0
NumberOrZero(v) == IF TypeOf(v) \in {"num", "float"} THEN ValOf(v) ELSE 0

\* The position a raw range gives for one of its ends
RawPosition(raw, side) ==
    [line |-> NumberOrZero(DictGet(DictGet(DictGet(raw, "range", JDict(<<>>)), side,
                                           JDict(<<>>)), "line", JNull)),
     character |-> NumberOrZero(DictGet(DictGet(DictGet(raw, "range", JDict(<<>>)), side,
                                                JDict(<<>>)), "character", JNull))]

\* The rule of a raw entry: its text when it is a non-empty string
RawRule(raw) ==
    IF TypeOf(DictGet(raw, "rule", JNull)) = "str" /\ ValOf(DictGet(raw, "rule", JNull)) # <<>>
    THEN Some(ValOf(DictGet(raw, "rule", JNull)))
    ELSE None

\* What the printed report's summary holds under key, null when nothing
ReportedValue(key) == DictGet(DictGet(DocOf[cp.stdout], "summary", JNull), key, JNull)

\* The positions and rules of the entries of a list, raw and normalised
RawShapes ==
    {<<RawPosition(RawEntries[i], "start"), RawPosition(RawEntries[i], "end"),
       RawRule(RawEntries[i])>> : i \in 1..Len(RawEntries)}
ResultShapes ==
    {<<result[1].diagnostics[i].range.start, result[1].diagnostics[i].range.end,
       result[1].diagnostics[i].rule>> : i \in 1..Len(result[1].diagnostics)}

\* C17: a report with both keys is normalised without failing: positions
\* and summary counters that are absent or no numbers become 0, and rule and
\* code are the raw rule when it is a non-empty string and null otherwise.
C17_DefaultsInsteadOfFailing ==
    (pc \in {"done", "raised"} /\ Ended /\ ~Unstructured(cp.stdout)) =>
        /\ Returned_
        /\ result[1].summary =
              [files_analyzed |-> NumberOrZero(ReportedValue("filesAnalyzed")),
               error_count |-> NumberOrZero(ReportedValue("errorCount")),
               warning_count |-> NumberOrZero(ReportedValue("warningCount")),
               information_count |-> NumberOrZero(ReportedValue("informationCount")),
               time_sec |-> NumberOrZero(ReportedValue("timeInSec"))]
        /\ ResultShapes = RawShapes
        /\ \A i \in 1..Len(result[1].diagnostics) :
              result[1].diagnostics[i].code = result[1].diagnostics[i].rule

(***************************************************************************)
(* Properties of the resolution of the executable                          *)
(***************************************************************************)

\* C18: a call of run_check that returns has run the resolver exactly once,
\* and the version it reports and the prefix of its command are those of
\* one resolution outcome.
C18_ResolvedOnce ==
    Returned_ =>
        /\ resolutions = 1
        /\ spawned =>
              \E e \in ResolverEnvs :
                  /\ argv_prefix = _build_pyright_argv(e.which, e.modrun)[1]
                  /\ version_info = get_pyright_version(e.which, e.modrun, e.verrun)

(***************************************************************************)
(* Properties of the command                                               *)
(***************************************************************************)

\* C19: the command of a result, when it has one, is the resolved prefix,
\* then --outputjson, then the extra arguments of the request, then the
\* elements of the result's checked_paths in their order, also when other
\* processes create and remove files during the call.
C19_CommandListsCheckedPaths ==
    (Returned_ /\ result[1].command # <<>>) =>
        result[1].command =
            argv_prefix \o << <<"-","-","o","u","t","p","u","t","j","s","o","n">> >>
                \o (IF Given(params.extra_args) THEN params.extra_args[1] ELSE <<>>)
                \o result[1].checked_paths

(***************************************************************************)
(* Properties of every result                                              *)
(***************************************************************************)

\* C20: in every result fail_reason is null exactly when ok is true, and a
\* result that is not ok for another reason than the threshold (missing
\* target, no checker, failure to start, timeout, output that does not
\* parse) has no diagnostics and a zero summary.
C20_ReasonIffNotOk ==
    Returned_ =>
        /\ result[1].fail_reason = None <=> result[1].ok
        /\ (~result[1].ok /\ ~(Ended /\ ~Unstructured(cp.stdout))) =>
              /\ result[1].diagnostics = <<>>
              /\ AllZero(result[1].summary)

\* A result that is not ok because of the threshold: it has a reason, its
\* diagnostics and its summary counters.
C20_Witness ==
    /\ Returned_
    /\ Ended
    /\ ~Unstructured(cp.stdout)
    /\ ~result[1].ok
    /\ result[1].fail_reason # None
    /\ result[1].diagnostics # <<>>
    /\ result[1].summary.error_count > 0

=============================================================================
